---- MODULE Spec2Model ----
(***************************************************************************)
(* A model of bytecheck's validator engine: the CheckBytes contract, the   *)
(* built-in validators of lib.rs and the validators that the derive macro  *)
(* generates for structs and enums.  One validation call is executed step  *)
(* by step on an explicit call stack: every check_bytes call, every read   *)
(* of the region, every error construction and every context attachment    *)
(* is appended to `trace`, so that the order of the checks is observable.  *)
(***************************************************************************)
EXTENDS Integers, Sequences, FiniteSets, TLC

VARIABLES
    mem,      \* the bytes of the region, address a is mem[a + 1]
    meta,     \* the pointer metadata of the region (length of a slice)
    shape,    \* the type whose check_bytes is called
    context,  \* the validation context C (the session) passed as &mut C
    pc,       \* "ready" before the call, "running" during it, "done" after
    stack,    \* the activation records of the check_bytes calls in progress
    ret,      \* what the call that returned last returned: "none", "ok", "err"
    err,      \* the C::Error value being returned (NoError when there is none)
    trace,    \* every call, read, error construction, attachment, in order
    log,      \* what the caller got from each top-level call that returned
    region,   \* the address at which the region of the call begins
    other     \* the call of the other thread, when there is one, as it
              \* stands while this thread runs

vars ==
    <<mem, meta, shape, context, pc, stack, ret, err, trace, log, region,
      other>>

(***************************************************************************)
(* Bounds of the model.                                                    *)
(***************************************************************************)
MaxN == 2        \* the largest array length N of the catalogue
MaxLen == 2      \* the largest slice length (pointer metadata)
MaxCalls == 2    \* the number of top-level calls made on one region
MaxStr == 4      \* the largest length in bytes of a str and of a CStr

Byte == 0..255

(***************************************************************************)
(* Types.  A type descriptor carries what the compiler knows: the kind,    *)
(* the size, and for every field its offset in the layout.                 *)
(***************************************************************************)
PrimT(name, size) == [kind |-> "prim", name |-> name, size |-> size]
BoolT == [kind |-> "bool"]
AtomicBoolT == [kind |-> "atomic_bool"]
CharT == [kind |-> "char"]
StrT == [kind |-> "str"]
CStrT == [kind |-> "cstr"]
NonZeroT(name, size) == [kind |-> "nonzero", name |-> name, size |-> size]
ManuallyDropT(t) == [kind |-> "manually_drop", inner |-> t]
ArrayT(t, n) == [kind |-> "array", elem |-> t, n |-> n]
SliceT(t) == [kind |-> "slice", elem |-> t]
TupleT(fields, size) == [kind |-> "tuple", fields |-> fields, size |-> size]
StructT(name, fields, size, verify) ==
    [kind |-> "struct", name |-> name, fields |-> fields, size |-> size,
     verify |-> verify]
TupleStructT(name, fields, size, verify) ==
    [kind |-> "tuple_struct", name |-> name, fields |-> fields, size |-> size,
     verify |-> verify]
UnitStructT(name, verify) ==
    [kind |-> "unit_struct", name |-> name, verify |-> verify]

RangeT(name, fields, size) ==
    [kind |-> "range", name |-> name, fields |-> fields, size |-> size]
\* An enum with #[repr(uN)]: repr is the size of the tag in bytes.
EnumT(name, repr, variants, size, verify) ==
    [kind |-> "enum", name |-> name, repr |-> repr, variants |-> variants,
     size |-> size, verify |-> verify]
\* A variant: its name, its discriminant, the style of its fields ("named",
\* "unnamed", "unit") and its fields, at their offsets in the #[repr(C)]
\* variant struct that starts with the tag.
Variant(name, tag, style, fields) ==
    [name |-> name, tag |-> tag, style |-> style, fields |-> fields]

\* A field of a tuple, struct or tuple struct: its name (structs), its
\* offset in the layout the compiler chose, and its type.
Field(name, off, t) == [name |-> name, off |-> off, type |-> t]

\* The optional #[check_bytes(verify = ...)] expression of a derived type.
\* NoVerify: the attribute is absent.  Otherwise the user's predicate; the
\* ones of the catalogue reject the value when the byte at `off` is `bad`.
\* VerifyReject is a predicate that rejects every value.
NoVerify == [present |-> FALSE]
VerifyByte(off, bad) ==
    [present |-> TRUE, always |-> FALSE, off |-> off, bad |-> bad]
VerifyReject == [present |-> TRUE, always |-> TRUE]

IsLeaf(t) == t.kind \in {"prim", "bool", "char", "nonzero", "str", "cstr"}

RECURSIVE SizeOf(_, _)
SizeOf(t, m) ==
    CASE t.kind \in {"prim", "nonzero"} -> t.size
      [] t.kind \in {"bool", "atomic_bool"} -> 1
      [] t.kind = "char" -> 4
      [] t.kind \in {"str", "cstr"} -> m
      [] t.kind = "manually_drop" -> SizeOf(t.inner, m)
      [] t.kind = "array" -> t.n * SizeOf(t.elem, 0)
      [] t.kind = "slice" -> m * SizeOf(t.elem, 0)
      [] t.kind \in {"tuple", "struct", "tuple_struct", "range", "enum"} -> t.size
      [] t.kind = "unit_struct" -> 0

(***************************************************************************)
(* Reading the region.                                                     *)
(***************************************************************************)
ByteAt(a) == mem[a + 1]

\* The n bytes at address a, lowest address first.
BytesAt(a, n) == [i \in 1..n |-> mem[a + i]]

\* ptr.cast::<u32>().read_unaligned() on a little-endian target (the target
\* the crate's example assumes).  A u32 is kept as its two 16-bit halves.
ReadU32(a) ==
    [hi |-> ByteAt(a + 3) * 256 + ByteAt(a + 2),
     lo |-> ByteAt(a + 1) * 256 + ByteAt(a)]

\* ReadInt that reads the tag as a u8, whatever the #repr of the enum.
ReadIntLowByte(a, n) == IF n = 0 THEN 0 ELSE ByteAt(a)

\* *value.cast::<#repr>() : the n-byte unsigned integer at a, little-endian.
RECURSIVE ReadInt(_, _)
ReadInt(a, n) == IF n = 0 THEN 0 ELSE ByteAt(a) + 256 * ReadInt(a + 1, n - 1)

\* *value.cast::<$underlying>() == 0 : an integer of any width is zero
\* exactly when each of its bytes is zero.
IsZeroInt(bytes) == \A i \in 1..Len(bytes) : bytes[i] = 0

(***************************************************************************)
(* Errors.  C::Error is Failure (FailureContext) or BoxedError             *)
(* (ErrorContext).                                                         *)
(***************************************************************************)
ErrorKinds == {"Failure", "Boxed"}

NoError == [kind |-> "none"]

\* FailureNew that keeps the source in the error.
FailureNewKeeping(source) == [kind |-> "Failure", cause |-> source]

\* impl Contextual for Failure
FailureNew(source) == [kind |-> "Failure"]
FailureNewWith(make_source) == [kind |-> "Failure"]
FailureContextOp(e, c) == e

\* BoxedError: keeps the source and every context, the last attached last.
BoxedNew(source) == [kind |-> "Boxed", cause |-> source, frames |-> <<>>]
BoxedContextOp(e, c) == [e EXCEPT !.frames = Append(@, c)]

\* Contextual::new, Contextual::new_with and Contextual::context of the
\* context's error type k.
New(k, source) == IF k = "Failure" THEN FailureNew(source) ELSE BoxedNew(source)
NewWith(k, make_source) ==
    IF k = "Failure" THEN FailureNewWith(make_source) ELSE BoxedNew(make_source)
\* AddContext that puts the new frame under the frames attached before.
AddContextInnermost(e, c) ==
    IF e.kind = "Failure" THEN FailureContextOp(e, c)
    ELSE [e EXCEPT !.frames = <<c>> \o @]

AddContext(e, c) ==
    IF e.kind = "Failure" THEN FailureContextOp(e, c) ELSE BoxedContextOp(e, c)

\* The error causes of lib.rs.
BoolCheckError(byte) == [type |-> "BoolCheckError", byte |-> byte]
CharTryFromError == [type |-> "CharTryFromError"]
NonZeroCheckError == [type |-> "NonZeroCheckError"]
VerifyError == [type |-> "VerifyError"]
\* core::str::Utf8Error: error_len is <<>> for None and <<n>> for Some(n)
Utf8Error(valid_up_to, error_len) ==
    [type |-> "Utf8Error", valid_up_to |-> valid_up_to,
     error_len |-> error_len]
\* FromBytesWithNulError::InteriorNul { position } and ::NotNulTerminated
InteriorNul(position) ==
    [type |-> "FromBytesWithNulError", kind |-> "InteriorNul",
     position |-> position]
NotNulTerminated ==
    [type |-> "FromBytesWithNulError", kind |-> "NotNulTerminated"]

\* The context frames of lib.rs.
ManuallyDropContext == [ctx |-> "ManuallyDropContext"]
TupleIndexContext(index) == [ctx |-> "TupleIndexContext", index |-> index]
ArrayCheckContext(index) == [ctx |-> "ArrayCheckContext", index |-> index]
SliceCheckContext(index) == [ctx |-> "SliceCheckContext", index |-> index]
StructCheckContext(struct_name, field_name) ==
    [ctx |-> "StructCheckContext", struct_name |-> struct_name,
     field_name |-> field_name]
TupleStructCheckContext(tuple_struct_name, field_index) ==
    [ctx |-> "TupleStructCheckContext",
     tuple_struct_name |-> tuple_struct_name, field_index |-> field_index]

InvalidEnumDiscriminantError(enum_name, invalid_discriminant) ==
    [type |-> "InvalidEnumDiscriminantError", enum_name |-> enum_name,
     invalid_discriminant |-> invalid_discriminant]
NamedEnumVariantCheckContext(enum_name, variant_name, field_name) ==
    [ctx |-> "NamedEnumVariantCheckContext", enum_name |-> enum_name,
     variant_name |-> variant_name, field_name |-> field_name]
UnnamedEnumVariantCheckContext(enum_name, variant_name, field_index) ==
    [ctx |-> "UnnamedEnumVariantCheckContext", enum_name |-> enum_name,
     variant_name |-> variant_name, field_index |-> field_index]

\* Results of the checks of one value.
Ok == [ok |-> TRUE]
Err(cause) == [ok |-> FALSE, cause |-> cause]

(***************************************************************************)
(* Events of the trace.                                                    *)
(***************************************************************************)
\* T::check_bytes(ptr, context) is called for the sub-region at `path`.
CallEvent(t, addr, path) ==
    [op |-> "call", type |-> t, addr |-> addr, path |-> path]
\* len bytes of the region are read at addr.
ReadEvent(addr, len) == [op |-> "read", addr |-> addr, len |-> len]
\* C::Error::new / new_with is called; built: the cause object was made.
NewEvent(cause, built) == [op |-> "new", cause |-> cause, built |-> built]
\* e.context(c) is called by the validator at `path`.
ContextEvent(c, path) == [op |-> "context", frame |-> c, path |-> path]
\* the verify expression of the type at `path` is evaluated.
VerifyEvent(path) == [op |-> "verify", path |-> path]

(***************************************************************************)
(* The checks of one value.                                                *)
(***************************************************************************)
U32(hi, lo) == [hi |-> hi, lo |-> lo]
U32Less(a, b) == a.hi < b.hi \/ (a.hi = b.hi /\ a.lo < b.lo)

\* BoolCheck with the byte 2 taken for a bool as well.
BoolCheckUpTo2(byte) ==
    IF byte \in {0, 1, 2} THEN Ok ELSE Err(BoolCheckError(byte))

\* BoolCheck that looks at the byte only when the error type of the context
\* can hold the cause, and takes every byte for a bool when it cannot.
BoolCheckWhenDetailed(byte) ==
    IF byte \in {0, 1} \/ context.error = "Failure"
    THEN Ok
    ELSE Err(BoolCheckError(byte))

\* match byte { 0 | 1 => Ok(()), _ => Err(new_with(|| BoolCheckError { byte })) }
BoolCheck(byte) ==
    IF byte \in {0, 1} THEN Ok ELSE Err(BoolCheckError(byte))

\* CharTryFrom without the test of the surrogate range.
CharTryFromMaxOnly(value) ==
    IF U32Less(U32(16, 65535), value) THEN Err(CharTryFromError) ELSE Ok

\* char::try_from(value): an error for a value above char::MAX (0x10FFFF)
\* and for a value in the surrogate range 0xD800..=0xDFFF.
CharTryFrom(value) ==
    IF \/ U32Less(U32(16, 65535), value)
       \/ (~U32Less(value, U32(0, 55296)) /\ ~U32Less(U32(0, 57343), value))
    THEN Err(CharTryFromError)
    ELSE Ok

\* NonZeroCheck that looks at the lowest byte of the integer alone.
NonZeroCheckLowByte(bytes) ==
    IF bytes[1] = 0 THEN Err(NonZeroCheckError) ELSE Ok

\* if *value.cast::<$underlying>() == 0 { Err(..NonZeroCheckError) } else { Ok(()) }
NonZeroCheck(bytes) ==
    IF IsZeroInt(bytes) THEN Err(NonZeroCheckError) ELSE Ok

\* Utf8CharWidth that takes the lead bytes 0xC0 and 0xC1, which begin the
\* two-byte encodings of the values below 0x80, for lead bytes as well.
Utf8CharWidthFromC0(b) ==
    IF b \in 192..223 THEN 2
    ELSE IF b \in 224..239 THEN 3
    ELSE IF b \in 240..244 THEN 4
    ELSE 0

\* utf8_char_width of a byte >= 0x80: 2 for 0xC2..=0xDF, 3 for 0xE0..=0xEF,
\* 4 for 0xF0..=0xF4, and 0 for the bytes that begin no encoding.
Utf8CharWidth(b) ==
    IF b \in 194..223 THEN 2
    ELSE IF b \in 224..239 THEN 3
    ELSE IF b \in 240..244 THEN 4
    ELSE 0

\* (b as i8) < -64: b is a continuation byte 0x80..=0xBF
IsContinuation(b) == b \in 128..191

\* The second byte a three-byte and a four-byte encoding may have after the
\* lead byte `first`.
SecondOf3(first, b) ==
    \/ first = 224 /\ b \in 160..191
    \/ first \in 225..236 /\ b \in 128..191
    \/ first = 237 /\ b \in 128..159
    \/ first \in 238..239 /\ b \in 128..191
SecondOf4(first, b) ==
    \/ first = 240 /\ b \in 144..191
    \/ first \in 241..243 /\ b \in 128..191
    \/ first = 244 /\ b \in 128..143

\* from_utf8(v), the validation loop from the byte at `index` (counted
\* from 0) on: the error names the index where the valid text ends, and
\* the length of the invalid sequence, None when the input ends in the
\* middle of an encoding.
RECURSIVE RunUtf8Validation(_, _)
RunUtf8Validation(v, index) ==
    LET len == Len(v)
        at(i) == v[i + 1]
        first == at(index)
        w == Utf8CharWidth(first)
        end == Err(Utf8Error(index, <<>>))
        bad(n) == Err(Utf8Error(index, <<n>>))
    IN IF index >= len THEN Ok
       ELSE IF first < 128 THEN RunUtf8Validation(v, index + 1)
       ELSE IF w = 2
       THEN IF index + 1 >= len THEN end
            ELSE IF ~IsContinuation(at(index + 1)) THEN bad(1)
            ELSE RunUtf8Validation(v, index + 2)
       ELSE IF w = 3
       THEN IF index + 1 >= len THEN end
            ELSE IF ~SecondOf3(first, at(index + 1)) THEN bad(1)
            ELSE IF index + 2 >= len THEN end
            ELSE IF ~IsContinuation(at(index + 2)) THEN bad(2)
            ELSE RunUtf8Validation(v, index + 3)
       ELSE IF w = 4
       THEN IF index + 1 >= len THEN end
            ELSE IF ~SecondOf4(first, at(index + 1)) THEN bad(1)
            ELSE IF index + 2 >= len THEN end
            ELSE IF ~IsContinuation(at(index + 2)) THEN bad(2)
            ELSE IF index + 3 >= len THEN end
            ELSE IF ~IsContinuation(at(index + 3)) THEN bad(3)
            ELSE RunUtf8Validation(v, index + 4)
       ELSE bad(1)

\* from_utf8(slice).map(|_| ())
FromUtf8(bytes) == RunUtf8Validation(bytes, 0)

\* memchr(0, bytes): the index of the first zero byte, -1 for None
Memchr0(bytes) ==
    IF \E i \in 1..Len(bytes) : bytes[i] = 0
    THEN (CHOOSE i \in 1..Len(bytes) :
              bytes[i] = 0 /\ \A j \in 1..(i - 1) : bytes[j] # 0) - 1
    ELSE -1

\* FromBytesWithNul that looks at the last byte alone.
FromBytesWithNulLastByte(bytes) ==
    IF bytes # <<>> /\ bytes[Len(bytes)] = 0 THEN Ok ELSE Err(NotNulTerminated)

\* CStr::from_bytes_with_nul(bytes): Ok when the first zero byte is the
\* last byte, InteriorNul when it is before the last, NotNulTerminated
\* when there is none.
FromBytesWithNul(bytes) ==
    LET nul_pos == Memchr0(bytes)
    IN IF nul_pos = -1 THEN Err(NotNulTerminated)
       ELSE IF nul_pos + 1 = Len(bytes) THEN Ok
       ELSE Err(InteriorNul(nul_pos))

\* VerifyCheck that accepts a value once in a session: it rejects when the
\* context shows an evaluation made before.
VerifyCheckOncePerSession(verify, base) ==
    IF verify.always \/ ByteAt(base + verify.off) = verify.bad
          \/ context.verified > 0
    THEN Err(VerifyError)
    ELSE Ok

\* The verify expression of a derived type, applied to the value at base.
VerifyCheck(verify, base) ==
    IF verify.always \/ ByteAt(base + verify.off) = verify.bad
    THEN Err(VerifyError)
    ELSE Ok

(***************************************************************************)
(* The call stack.                                                         *)
(***************************************************************************)
\* The activation record of T::check_bytes(value, context): the type T, the
\* address and metadata of value, the index of the child check last called,
\* the variant the tag matched (enums; 0 before the match), and the path of
\* the sub-region from the top-level region.
Frame(t, base, m, path) ==
    [type |-> t, base |-> base, meta |-> m, idx |-> 0, variant |-> 0,
     path |-> path]

Top == stack[Len(stack)]
Running(kind) == pc = "running" /\ stack # <<>> /\ Top.type.kind = kind

\* What the caller of the top-level call holds when it has returned r.
Outcome(r, e, events) == [ret |-> r, err |-> e, trace |-> events]

\* The call on top of the stack returns r (with error e), after `events`.
Return(r, e, events) ==
    /\ stack' = SubSeq(stack, 1, Len(stack) - 1)
    /\ ret' = r
    /\ err' = e
    /\ trace' = trace \o events
    /\ pc' = IF Len(stack) = 1 THEN "done" ELSE pc
    /\ log' = IF Len(stack) = 1
              THEN Append(log, Outcome(r, e, trace \o events))
              ELSE log
    /\ UNCHANGED <<region, other>>

\* The call on top of the stack returns what the check `res` says; the
\* error is built with new_with (lazy) or with new.
ReturnCheck(res, lazy, events) ==
    IF res.ok
    THEN Return("ok", err, events)
    ELSE Return("err",
                IF lazy THEN NewWith(context.error, res.cause)
                        ELSE New(context.error, res.cause),
                events \o <<NewEvent(res.cause,
                                     ~(lazy /\ context.error = "Failure"))>>)

\* The call on top of the stack, after `events`, calls check_bytes of its
\* child number i, the field f of its layout (v: the variant matched).
CallChildIn(v, i, f, events) ==
    LET child == Frame(f.type, Top.base + f.off, f.meta, Append(Top.path, i))
    IN /\ stack' = [stack EXCEPT ![Len(stack)].idx = i,
                                 ![Len(stack)].variant = v] \o <<child>>
       /\ trace' = trace \o events
                      \o <<CallEvent(child.type, child.base, child.path)>>
       /\ ret' = "none"
       /\ UNCHANGED <<err, pc, context, log, region, other>>

CallChild(i, f) == CallChildIn(Top.variant, i, f, <<>>)

\* One child check of a check_bytes body,
\*     F::check_bytes(ptr, context).map_err(|e| e.context(ctx))?;
\* f: the sub-region ptr points to (offset, type, metadata).
ChildCheck(f, ctx) ==
    [off |-> f.off, type |-> f.type, meta |-> f.meta, ctx |-> ctx]

\* The body of a check_bytes that makes the child checks `checks` in order
\* (check number i is checks[i + 1]) and then evaluates `Finish`.
CheckChildren(checks, Finish) ==
    \/ /\ ret = "none"      \* the body starts
       /\ IF checks = <<>> THEN Finish ELSE CallChild(0, checks[1])
    \/ /\ ret = "ok"        \* child idx returned Ok(())
       /\ IF Top.idx + 1 < Len(checks)
          THEN CallChild(Top.idx + 1, checks[Top.idx + 2])
          ELSE Finish
    \/ /\ ret = "err"       \* child idx returned Err(e): map_err and `?`
       /\ Return("err", AddContext(err, checks[Top.idx + 1].ctx),
                 <<ContextEvent(checks[Top.idx + 1].ctx, Top.path)>>)
       /\ UNCHANGED context

\* Ok(())
ReturnOk == Return("ok", err, <<>>) /\ UNCHANGED context

\* VerifyThenOkAfter with the error of the verify expression put in a frame
\* of the type, as the error of a field is.
VerifyFramedThenOkAfter(events) ==
    LET res == VerifyCheck(Top.type.verify, Top.base)
        frame == StructCheckContext(Top.type.name, "verify")
    IN IF Top.type.verify.present
       THEN /\ IF res.ok
               THEN Return("ok", err, events \o <<VerifyEvent(Top.path)>>)
               ELSE Return("err",
                           AddContext(New(context.error, res.cause), frame),
                           events \o <<VerifyEvent(Top.path),
                                       NewEvent(res.cause, TRUE),
                                       ContextEvent(frame, Top.path)>>)
            /\ context' = [context EXCEPT !.verified = @ + 1]
       ELSE Return("ok", err, events) /\ UNCHANGED context

\* #verify_check Ok(()) of a derived type: when the type has a verify
\* expression, __verify()(&*value, context)? is evaluated first; the user's
\* closure gets the context and, here, counts its evaluations in it.
VerifyThenOkAfter(events) ==
    IF Top.type.verify.present
    THEN /\ ReturnCheck(VerifyCheck(Top.type.verify, Top.base), FALSE,
                        events \o <<VerifyEvent(Top.path)>>)
         /\ context' = [context EXCEPT !.verified = @ + 1]
    ELSE Return("ok", err, events) /\ UNCHANGED context

VerifyThenOk == VerifyThenOkAfter(<<>>)

(***************************************************************************)
(* check_bytes of the built-in types.                                      *)
(***************************************************************************)
\* check_bytes of a primitive that reads the value and rejects zero, as
\* the non-zero integers do.
CheckBytesPrimitiveAsNonZero ==
    /\ Running("prim")
    /\ ret = "none"
    /\ ReturnCheck(NonZeroCheck(BytesAt(Top.base, Top.type.size)), TRUE,
                   <<ReadEvent(Top.base, Top.type.size)>>)
    /\ UNCHANGED <<mem, meta, shape, context>>

\* impl_primitive!: Ok(()) without a look at value or context.
CheckBytesPrimitive ==
    /\ Running("prim")
    /\ ret = "none"
    /\ ReturnOk
    /\ UNCHANGED <<mem, meta, shape, context>>

\* check_bytes of bool that puts a zero in the place of the byte it rejects.
CheckBytesBoolClearing ==
    /\ Running("bool")
    /\ ret = "none"
    /\ ReturnCheck(BoolCheck(ByteAt(Top.base)), TRUE,
                   <<ReadEvent(Top.base, 1)>>)
    /\ mem' = IF BoolCheck(ByteAt(Top.base)).ok THEN mem
              ELSE [mem EXCEPT ![Top.base + 1] = 0]
    /\ UNCHANGED <<meta, shape, context>>

CheckBytesBool ==
    /\ Running("bool")
    /\ ret = "none"
    /\ ReturnCheck(BoolCheck(ByteAt(Top.base)), TRUE,
                   <<ReadEvent(Top.base, 1)>>)
    /\ UNCHANGED <<mem, meta, shape, context>>

CheckBytesChar ==
    /\ Running("char")
    /\ ret = "none"
    /\ ReturnCheck(CharTryFrom(ReadU32(Top.base)), FALSE,
                   <<ReadEvent(Top.base, 4)>>)
    /\ UNCHANGED <<mem, meta, shape, context>>

CheckBytesNonZero ==
    /\ Running("nonzero")
    /\ ret = "none"
    /\ ReturnCheck(NonZeroCheck(BytesAt(Top.base, Top.type.size)), TRUE,
                   <<ReadEvent(Top.base, Top.type.size)>>)
    /\ UNCHANGED <<mem, meta, shape, context>>

\* let slice = &*(value as *const [u8]);
\* from_utf8(slice).map(|_| ()).map_err(C::Error::new)
CheckBytesStr ==
    /\ Running("str")
    /\ ret = "none"
    /\ ReturnCheck(FromUtf8(BytesAt(Top.base, Top.meta)), FALSE,
                   <<ReadEvent(Top.base, Top.meta)>>)
    /\ UNCHANGED <<mem, meta, shape, context>>

\* CStr::from_bytes_with_nul(slice).map_err(C::Error::new)?; Ok(())
CheckBytesCStr ==
    /\ Running("cstr")
    /\ ret = "none"
    /\ ReturnCheck(FromBytesWithNul(BytesAt(Top.base, Top.meta)), FALSE,
                   <<ReadEvent(Top.base, Top.meta)>>)
    /\ UNCHANGED <<mem, meta, shape, context>>

\* value.cast(): the pointer to the AtomicBool as a pointer to a bool.
BoolPtr == [off |-> 0, type |-> BoolT, meta |-> 0]

\* check_bytes of AtomicBool with the error of the bool put in a frame, as
\* the transparent wrapper ManuallyDrop does it.
CheckBytesAtomicBoolAsWrapper ==
    /\ Running("atomic_bool")
    /\ \/ ret = "none" /\ CallChild(0, BoolPtr)
       \/ ret = "ok" /\ Return("ok", err, <<>>)
       \/ /\ ret = "err"
          /\ Return("err", AddContext(err, [ctx |-> "AtomicBoolContext"]),
                    <<ContextEvent([ctx |-> "AtomicBoolContext"], Top.path)>>)
    /\ UNCHANGED <<mem, meta, shape, context>>

\* unsafe { bool::check_bytes(value.cast(), context) }: the result of the
\* bool's check is the result, as it is.
CheckBytesAtomicBool ==
    /\ Running("atomic_bool")
    /\ \/ ret = "none" /\ CallChild(0, BoolPtr)
       \/ ret = "ok" /\ Return("ok", err, <<>>)
       \/ ret = "err" /\ Return("err", err, <<>>)
    /\ UNCHANGED <<mem, meta, shape, context>>

\* The pointer to the inner T is the pointer to the ManuallyDrop<T>.
InnerPtr == [off |-> 0, type |-> Top.type.inner, meta |-> Top.meta]

\* check_bytes of ManuallyDrop<T> that returns the result of T as it is.
CheckBytesManuallyDropNoFrame ==
    /\ Running("manually_drop")
    /\ \/ ret = "none" /\ CallChild(0, InnerPtr)
       \/ ret = "ok" /\ Return("ok", err, <<>>)
       \/ ret = "err" /\ Return("err", err, <<>>)
    /\ UNCHANGED <<mem, meta, shape, context>>

CheckBytesManuallyDrop ==
    /\ Running("manually_drop")
    /\ CheckChildren(<<ChildCheck(InnerPtr, ManuallyDropContext)>>, ReturnOk)
    /\ UNCHANGED <<mem, meta, shape, context>>

\* base.add(index)
ElementAt(index) ==
    [off |-> index * SizeOf(Top.type.elem, 0), type |-> Top.type.elem,
     meta |-> 0]

\* ArrayChecks with the index of the context counted from one.
ArrayChecksOneBased ==
    [i \in 1..Top.type.n |->
        ChildCheck(ElementAt(i - 1), ArrayCheckContext(i))]

\* for index in 0..N { T::check_bytes(base.add(index), context)
\*     .map_err(|e| e.context(ArrayCheckContext { index }))?; }
ArrayChecks ==
    [i \in 1..Top.type.n |->
        ChildCheck(ElementAt(i - 1), ArrayCheckContext(i - 1))]

CheckBytesArray ==
    /\ Running("array")
    /\ CheckChildren(ArrayChecks, ReturnOk)
    /\ UNCHANGED <<mem, meta, shape, context>>

\* SliceChecks with the index running up to len, len included.
SliceChecksInclusive ==
    [i \in 1..(Top.meta + 1) |->
        ChildCheck(ElementAt(i - 1), SliceCheckContext(i - 1))]

\* let (data_address, len) = PtrExt::to_raw_parts(value);
\* for index in 0..len { .. SliceCheckContext { index } .. }
SliceChecks ==
    [i \in 1..Top.meta |->
        ChildCheck(ElementAt(i - 1), SliceCheckContext(i - 1))]

CheckBytesSlice ==
    /\ Running("slice")
    /\ CheckChildren(SliceChecks, ReturnOk)
    /\ UNCHANGED <<mem, meta, shape, context>>

\* ptr::addr_of!((*value).$index)
TupleField(index) ==
    [off |-> Top.type.fields[index + 1].off,
     type |-> Top.type.fields[index + 1].type, meta |-> 0]

\* TupleChecks with the fields taken from the last to the first.
TupleChecksReversed ==
    [i \in 1..Len(Top.type.fields) |->
        ChildCheck(TupleField(Len(Top.type.fields) - i),
                   TupleIndexContext(Len(Top.type.fields) - i))]

\* $( <$type>::check_bytes(..).map_err(|e| e.context(
\*        TupleIndexContext { index: $index }))?; )*
TupleChecks ==
    [i \in 1..Len(Top.type.fields) |->
        ChildCheck(TupleField(i - 1), TupleIndexContext(i - 1))]

CheckBytesTuple ==
    /\ Running("tuple")
    /\ CheckChildren(TupleChecks, ReturnOk)
    /\ UNCHANGED <<mem, meta, shape, context>>

(***************************************************************************)
(* check_bytes of the Range types and of the derived types.                *)
(***************************************************************************)
\* StructField with the declared fields taken to lie in memory in the order
\* of their declaration: field number index gets the index-th lowest offset.
StructFieldInDeclaredOrder(index) ==
    LET fs == Top.type.fields
        j == CHOOSE j \in 1..Len(fs) :
                Cardinality({l \in 1..Len(fs) : fs[l].off < fs[j].off}) = index
    IN [off |-> fs[j].off, type |-> fs[index + 1].type, meta |-> 0]

StructField(index) ==
    [off |-> Top.type.fields[index + 1].off,
     type |-> Top.type.fields[index + 1].type, meta |-> 0]

\* StructFieldCtx with the name of the struct in the place of the field's.
StructFieldCtxStructName(index) ==
    StructCheckContext(Top.type.name, Top.type.name)

\* StructCheckContext { struct_name: stringify!(#name), field_name: stringify!(#field) }
StructFieldCtx(index) ==
    StructCheckContext(Top.type.name, Top.type.fields[index + 1].name)

\* TupleStructCheckContext { tuple_struct_name: stringify!(#name), field_index: #i }
TupleStructFieldCtx(index) == TupleStructCheckContext(Top.type.name, index)

\* StructChecks with the fields taken in the order of their offsets.
StructChecksByOffset ==
    [i \in 1..Len(Top.type.fields) |->
        LET fs == Top.type.fields
            j == CHOOSE j \in 1..Len(fs) :
                    Cardinality({l \in 1..Len(fs) : fs[l].off < fs[j].off}) = i - 1
        IN ChildCheck(StructField(j - 1), StructFieldCtx(j - 1))]

\* field_checks of Fields::Named: fields.named.iter().map(..)
StructChecks ==
    [i \in 1..Len(Top.type.fields) |->
        ChildCheck(StructField(i - 1), StructFieldCtx(i - 1))]

\* field_checks of Fields::Unnamed: fields.unnamed.iter().enumerate().map(..)
TupleStructChecks ==
    [i \in 1..Len(Top.type.fields) |->
        ChildCheck(StructField(i - 1), TupleStructFieldCtx(i - 1))]

\* ops::Range, RangeFrom, RangeTo, RangeToInclusive: the fields start and
\* end (those the type has), each with a StructCheckContext.
CheckBytesRange ==
    /\ Running("range")
    /\ CheckChildren(StructChecks, ReturnOk)
    /\ UNCHANGED <<mem, meta, shape>>

\* derive, Fields::Named: #(#field_checks)* #verify_check Ok(())
CheckBytesStruct ==
    /\ Running("struct")
    /\ CheckChildren(StructChecks, VerifyThenOk)
    /\ UNCHANGED <<mem, meta, shape>>

\* derive, Fields::Unnamed
CheckBytesTupleStruct ==
    /\ Running("tuple_struct")
    /\ CheckChildren(TupleStructChecks, VerifyThenOk)
    /\ UNCHANGED <<mem, meta, shape>>

\* check_bytes of a unit struct that is Ok(()) and nothing else, the verify
\* expression left out.
CheckBytesUnitStructNoVerify ==
    /\ Running("unit_struct")
    /\ ret = "none"
    /\ ReturnOk
    /\ UNCHANGED <<mem, meta, shape>>

\* derive, Fields::Unit: #verify_check Ok(())
CheckBytesUnitStruct ==
    /\ Running("unit_struct")
    /\ ret = "none"
    /\ VerifyThenOk
    /\ UNCHANGED <<mem, meta, shape>>

\* MatchTag whose `_` arm falls into the arm of the first variant.
MatchTagDefaultFirst(t, tag) ==
    LET hits == {v \in 1..Len(t.variants) : t.variants[v].tag = tag}
    IN IF hits = {} THEN 1 ELSE CHOOSE v \in hits : \A w \in hits : v <= w

\* match tag { Discriminant::V1 => .., Discriminant::V2 => .., _ => .. }:
\* the number of the variant whose arm is taken, 0 for the `_` arm.
MatchTag(t, tag) ==
    LET hits == {v \in 1..Len(t.variants) : t.variants[v].tag = tag}
    IN IF hits = {} THEN 0 ELSE CHOOSE v \in hits : \A w \in hits : v <= w

\* ptr::addr_of!((*value).#field_name), ptr::addr_of!((*value).#index) with
\* value cast to the variant struct
EnumField(v, index) ==
    [off |-> Top.type.variants[v].fields[index + 1].off,
     type |-> Top.type.variants[v].fields[index + 1].type, meta |-> 0]

\* check_arm_named_field: field_name: stringify!(#field_name);
\* check_arm_unnamed_field: index = Index::from(i + 1), field_index: #index
EnumFieldCtx(v, i) ==
    LET var == Top.type.variants[v]
    IN IF var.style = "named"
       THEN NamedEnumVariantCheckContext(Top.type.name, var.name,
                                         var.fields[i + 1].name)
       ELSE UnnamedEnumVariantCheckContext(Top.type.name, var.name, i + 1)

\* check_arms: the checks of the fields of variant v, in declaration order
VariantChecks(v) ==
    [i \in 1..Len(Top.type.variants[v].fields) |->
        ChildCheck(EnumField(v, i - 1), EnumFieldCtx(v, i - 1))]

\* TagRead with the tag read a second time for the match.
TagReadTwice ==
    <<ReadEvent(Top.base, Top.type.repr), ReadEvent(Top.base, Top.type.repr)>>

\* let tag = *value.cast::<#repr>(): the one read of the discriminant
TagRead == <<ReadEvent(Top.base, Top.type.repr)>>

\* derive, Data::Enum: let tag = *value.cast::<#repr>(); match tag { arms }
\* #verify_check Ok(())
CheckBytesEnum ==
    /\ Running("enum")
    /\ \/ /\ ret = "none"
          /\ LET tag == ReadInt(Top.base, Top.type.repr)
                 v == MatchTag(Top.type, tag)
                 rd == TagRead
             IN IF v = 0
                THEN /\ ReturnCheck(
                            Err(InvalidEnumDiscriminantError(Top.type.name, tag)),
                            FALSE, rd)
                     /\ UNCHANGED context
                ELSE IF VariantChecks(v) = <<>>
                THEN VerifyThenOkAfter(rd)
                ELSE CallChildIn(v, 0, VariantChecks(v)[1], rd)
       \/ /\ ret = "ok"
          /\ IF Top.idx + 1 < Len(VariantChecks(Top.variant))
             THEN CallChild(Top.idx + 1, VariantChecks(Top.variant)[Top.idx + 2])
             ELSE VerifyThenOk
       \/ /\ ret = "err"
          /\ Return("err",
                    AddContext(err, VariantChecks(Top.variant)[Top.idx + 1].ctx),
                    <<ContextEvent(VariantChecks(Top.variant)[Top.idx + 1].ctx,
                                   Top.path)>>)
          /\ UNCHANGED context
    /\ UNCHANGED <<mem, meta, shape>>

(***************************************************************************)
(* The types of the catalogue: the types check_bytes is called for.        *)
(***************************************************************************)
UnitT == PrimT("()", 0)
PhantomDataT == PrimT("PhantomData", 0)
U8T == PrimT("u8", 1)
I16T == PrimT("i16", 2)
U32T == PrimT("u32", 4)
F32T == PrimT("f32", 4)
F64T == PrimT("f64", 8)
NonZeroU8T == NonZeroT("NonZeroU8", 1)
NonZeroI16T == NonZeroT("NonZeroI16", 2)
NonZeroU32T == NonZeroT("NonZeroU32", 4)
NonZeroI64T == NonZeroT("NonZeroI64", 8)
NonZeroU128T == NonZeroT("NonZeroU128", 16)

LeafTypes ==
    {UnitT, PhantomDataT, U8T, I16T, U32T, F32T, F64T, BoolT, CharT,
     NonZeroU8T, NonZeroI16T, NonZeroU32T, NonZeroI64T, NonZeroU128T}

\* struct Test { a: u32, b: bool, c: char }, laid out as (u32, char, bool)
TestT ==
    StructT("Test",
            <<Field("a", 0, U32T), Field("b", 8, BoolT), Field("c", 4, CharT)>>,
            12, NoVerify)

\* struct Checked { code: u8, ok: bool } with a verify that rejects code 255
CheckedT ==
    StructT("Checked", <<Field("code", 0, U8T), Field("ok", 1, BoolT)>>, 2,
            VerifyByte(0, 255))

\* struct Outer { flags: [bool; 2], inner: Checked }
OuterT ==
    StructT("Outer",
            <<Field("flags", 2, ArrayT(BoolT, 2)), Field("inner", 0, CheckedT)>>,
            4, NoVerify)

\* struct Pair(bool, NonZeroU8), and the same with a verify
PairT ==
    TupleStructT("Pair", <<Field("0", 0, BoolT), Field("1", 1, NonZeroU8T)>>,
                 2, NoVerify)
PairVT ==
    TupleStructT("PairV", <<Field("0", 1, BoolT), Field("1", 0, NonZeroU8T)>>,
                 2, VerifyByte(0, 255))

\* struct Marker;   and   #[check_bytes(verify = ...)] struct Never;
MarkerT == UnitStructT("Marker", NoVerify)
NeverT == UnitStructT("Never", VerifyReject)

\* struct Nothing {}   and   struct Nil();
NothingT == StructT("Nothing", <<>>, 0, NoVerify)
NilT == TupleStructT("Nil", <<>>, 0, NoVerify)

\* struct Flag { set: AtomicBool }
FlagT == StructT("Flag", <<Field("set", 0, AtomicBoolT)>>, 1, NoVerify)

\* (bool,), (bool, char) laid out as (char, bool), (u32, bool, char) laid
\* out as (u32, char, bool), (char, bool, NonZeroU8) laid out in order
Tuple1T == TupleT(<<Field("0", 0, BoolT)>>, 1)
Tuple2T == TupleT(<<Field("0", 4, BoolT), Field("1", 0, CharT)>>, 8)
Tuple3T ==
    TupleT(<<Field("0", 0, U32T), Field("1", 8, BoolT), Field("2", 4, CharT)>>,
           12)
Tuple3bT ==
    TupleT(<<Field("0", 0, CharT), Field("1", 4, BoolT),
             Field("2", 5, NonZeroU8T)>>, 8)

\* The 13-tuple ((), (), (), (), (), bool, (), (), (), char, (), (), bool),
\* laid out as (char, bool, bool) with the units at offset 0
Tuple13T ==
    TupleT([i \in 1..13 |->
              IF i = 6 THEN Field("5", 4, BoolT)
              ELSE IF i = 10 THEN Field("9", 0, CharT)
              ELSE IF i = 13 THEN Field("12", 5, BoolT)
              ELSE Field("unit", 0, UnitT)], 8)

\* Range<char>, RangeFrom<bool>, RangeTo<bool>, RangeToInclusive<NonZeroU8>
RangeCharT ==
    RangeT("Range", <<Field("start", 0, CharT), Field("end", 4, CharT)>>, 8)
RangeFromT == RangeT("RangeFrom", <<Field("start", 0, BoolT)>>, 1)
RangeToT == RangeT("RangeTo", <<Field("end", 0, BoolT)>>, 1)
RangeToInclusiveT ==
    RangeT("RangeToInclusive", <<Field("end", 0, NonZeroU8T)>>, 1)

\* #[repr(u8)] enum Kind { Empty = 0, Named { flag: bool, c: char } = 1,
\*                         Pos(bool, NonZeroU8) = 5 }
KindVariants ==
    <<Variant("Empty", 0, "unit", <<>>),
      Variant("Named", 1, "named",
              <<Field("flag", 1, BoolT), Field("c", 4, CharT)>>),
      Variant("Pos", 5, "unnamed",
              <<Field("0", 1, BoolT), Field("1", 2, NonZeroU8T)>>)>>
KindT == EnumT("Kind", 1, KindVariants, 8, NoVerify)
\* the same enum with a verify that rejects the byte 255 at offset 3
KindVT == EnumT("KindV", 1, KindVariants, 8, VerifyByte(3, 255))

\* #[repr(u16)] enum Wide { A = 0, B(bool) = 256 }
WideT ==
    EnumT("Wide", 2,
          <<Variant("A", 0, "unit", <<>>),
            Variant("B", 256, "unnamed", <<Field("0", 2, BoolT)>>)>>,
          4, NoVerify)

ElemTypes == {BoolT, CharT, NonZeroI16T, U8T, PairT}

CompositeTypes ==
    {ArrayT(t, n) : t \in ElemTypes, n \in 0..MaxN}
    \cup {ArrayT(ArrayT(BoolT, 2), MaxN)}
    \cup {SliceT(t) : t \in ElemTypes}
    \cup {ManuallyDropT(BoolT), ManuallyDropT(CharT),
          ManuallyDropT(SliceT(BoolT)), ManuallyDropT(ManuallyDropT(Tuple1T))}
    \cup {Tuple1T, Tuple2T, Tuple3T, Tuple3bT, Tuple13T}
    \cup {RangeCharT, RangeFromT, RangeToT, RangeToInclusiveT}
    \cup {TestT, CheckedT, OuterT, PairT, PairVT, MarkerT, NeverT}
    \cup {NothingT, NilT, ArrayT(NeverT, MaxN)}
    \cup {AtomicBoolT, ArrayT(AtomicBoolT, MaxN), ManuallyDropT(AtomicBoolT),
          FlagT}
    \cup {KindT, KindVT, WideT, ArrayT(WideT, 2)}
    \cup {StrT, CStrT, ManuallyDropT(StrT)}

Types == LeafTypes \cup CompositeTypes

(***************************************************************************)
(* The regions check_bytes is called on: for every type, byte images of    *)
(* its size.  d is the nesting depth of the sub-region: the top-level      *)
(* region of a leaf type takes every value of the larger samples, nested   *)
(* sub-regions take the values of smaller ones.                            *)
(***************************************************************************)
Fill(n, b) == [i \in 1..n |-> b]
OneHot(n, p, b) == [i \in 1..n |-> IF i = p THEN b ELSE 0]
Patterns(n) ==
    {Fill(n, 0), Fill(n, 255)}
    \cup {OneHot(n, p, b) : p \in 1..n, b \in {1, 128, 255}}

\* The little-endian bytes of the u32 with the 16-bit halves hi and lo.
U32Bytes(hi, lo) == <<lo % 256, lo \div 256, hi % 256, hi \div 256>>

CharFull ==
    {<<b0, b1, b2, b3>> : b0 \in {0, 255}, b1 \in {0, 215, 216, 223, 224, 255},
                          b2 \in {0, 16, 17}, b3 \in {0, 1, 255}}
    \cup {U32Bytes(0, 120)}
CharSome ==
    {U32Bytes(0, 120), U32Bytes(0, 55295), U32Bytes(0, 55296),
     U32Bytes(0, 57343), U32Bytes(16, 65535), U32Bytes(17, 0)}
CharFew == {U32Bytes(0, 120), U32Bytes(0, 55296), U32Bytes(17, 0)}

LeafImages(t, d) ==
    CASE t.kind = "prim" ->
            IF t.size = 0 THEN {<<>>}
            ELSE IF d = 0
            THEN (IF t.size = 1 THEN {<<b>> : b \in Byte} ELSE Patterns(t.size))
            ELSE IF d = 1 THEN Patterns(t.size) \cup {OneHot(t.size, 1, 42)}
            ELSE {Fill(t.size, 0), Fill(t.size, 255), OneHot(t.size, 1, 42)}
      [] t.kind = "nonzero" ->
            IF d = 0
            THEN (IF t.size = 1 THEN {<<b>> : b \in Byte} ELSE Patterns(t.size))
            ELSE {Fill(t.size, 0), Fill(t.size, 1), OneHot(t.size, t.size, 128)}
      [] t.kind = "bool" ->
            IF d = 0 THEN {<<b>> : b \in Byte}
            ELSE IF d = 1 THEN {<<0>>, <<1>>, <<2>>, <<128>>, <<255>>}
            ELSE {<<0>>, <<1>>, <<2>>}
      [] t.kind = "char" ->
            IF d = 0 THEN CharFull ELSE IF d = 1 THEN CharSome ELSE CharFew

\* Pieces of text: encodings of scalar values of every length, at the ends
\* of their ranges, and byte sequences that are no encoding (a lone
\* continuation byte, over-long forms, surrogates, values above 0x10FFFF,
\* encodings cut short or with a byte that is no continuation).
Utf8Chunks ==
    {<<0>>, <<65>>, <<127>>, <<194, 128>>, <<223, 191>>, <<224, 160, 128>>,
     <<225, 128, 128>>, <<237, 159, 191>>, <<238, 128, 128>>,
     <<239, 191, 191>>, <<240, 144, 128, 128>>, <<244, 143, 191, 191>>}
    \cup {<<128>>, <<191>>, <<192, 128>>, <<193, 191>>, <<194>>, <<194, 65>>,
          <<194, 192>>, <<224, 128, 128>>, <<224, 159, 191>>,
          <<237, 160, 128>>, <<237, 191, 191>>, <<224, 160>>,
          <<224, 160, 65>>, <<240, 128, 128, 128>>, <<240, 143, 191, 191>>,
          <<244, 144, 128, 128>>, <<245, 128, 128, 128>>,
          <<247, 191, 191, 191>>, <<240, 144, 128>>, <<240, 144, 128, 65>>,
          <<240, 144, 65, 128>>, <<254>>, <<255>>}

\* The regions of a str of m bytes: a piece of text, or two, one after the
\* other.
StrImages(m) ==
    {s \in {<<>>} \cup Utf8Chunks \cup {a \o b : a, b \in Utf8Chunks} :
        Len(s) = m}

\* The regions of a CStr of m bytes.
CStrBytes == {0, 1, 65, 255}
CStrImages(m) == [1..m -> CStrBytes]

\* The sub-regions of a region of type t at their offsets (not for enums,
\* whose sub-regions depend on the tag).
LayoutOf(t, m) ==
    CASE t.kind = "manually_drop" -> <<[off |-> 0, type |-> t.inner, meta |-> m]>>
      [] t.kind = "atomic_bool" -> <<[off |-> 0, type |-> BoolT, meta |-> 0]>>
      [] t.kind = "array" ->
            [i \in 1..t.n |-> [off |-> (i - 1) * SizeOf(t.elem, 0),
                               type |-> t.elem, meta |-> 0]]
      [] t.kind = "slice" ->
            [i \in 1..m |-> [off |-> (i - 1) * SizeOf(t.elem, 0),
                             type |-> t.elem, meta |-> 0]]
      [] t.kind \in {"tuple", "struct", "tuple_struct", "range"} ->
            [i \in 1..Len(t.fields) |->
                [off |-> t.fields[i].off, type |-> t.fields[i].type, meta |-> 0]]
      [] t.kind = "unit_struct" -> <<>>

\* All the sequences whose i-th element is in sets[i].
RECURSIVE SeqProduct(_)
SeqProduct(sets) ==
    IF sets = <<>> THEN {<<>>}
    ELSE {<<h>> \o tl : h \in Head(sets), tl \in SeqProduct(Tail(sets))}

\* The image of `size` bytes with imgs[k] at offset offs[k] and the byte
\* pad everywhere else (padding).
Place(size, offs, imgs, pad) ==
    [i \in 1..size |->
        LET hit == {k \in 1..Len(offs) :
                        offs[k] < i /\ i <= offs[k] + Len(imgs[k])}
        IN IF hit = {} THEN pad
           ELSE LET k == CHOOSE k \in hit : TRUE IN imgs[k][i - offs[k]]]

PadBytes == {0, 1, 255}

\* The little-endian bytes of the n-byte unsigned integer x.
RECURSIVE IntBytes(_, _)
IntBytes(x, n) ==
    IF n = 0 THEN <<>> ELSE <<x % 256>> \o IntBytes(x \div 256, n - 1)

\* The tags of the images of an enum.  #[repr(u8)]: every tag.  Wider: the
\* declared tags, their successors, the tags that differ from a declared
\* one in the second byte alone, and the tag with every bit set.
TagSamples(t) ==
    LET declared == {t.variants[v].tag : v \in 1..Len(t.variants)}
    IN IF t.repr = 1 THEN {<<b>> : b \in Byte}
       ELSE {IntBytes(x, t.repr) :
                x \in declared \cup {x + 1 : x \in declared}
                               \cup {x + 256 : x \in declared}}
            \cup {Fill(t.repr, 255)}

RECURSIVE Images(_, _, _)
Images(t, m, d) ==
    IF t.kind = "str" THEN StrImages(m)
    ELSE IF t.kind = "cstr" THEN CStrImages(m)
    ELSE IF IsLeaf(t) THEN LeafImages(t, d)
    ELSE IF t.kind = "enum"
    THEN UNION {
            LET v == CHOOSE v \in 0..Len(t.variants) :
                        \/ v > 0 /\ IntBytes(t.variants[v].tag, t.repr) = tag
                        \/ v = 0 /\ \A w \in 1..Len(t.variants) :
                                      IntBytes(t.variants[w].tag, t.repr) # tag
                fs == IF v = 0 THEN <<>> ELSE t.variants[v].fields
            IN {Place(t.size, <<0>> \o [i \in 1..Len(fs) |-> fs[i].off],
                      <<tag>> \o imgs, pad) :
                    imgs \in SeqProduct([i \in 1..Len(fs) |->
                                            Images(fs[i].type, 0, d + 1)]),
                    pad \in PadBytes}
            : tag \in TagSamples(t)}
    ELSE LET lay == LayoutOf(t, m)
         IN {Place(SizeOf(t, m), [i \in 1..Len(lay) |-> lay[i].off], imgs, pad) :
                imgs \in SeqProduct([i \in 1..Len(lay) |->
                                        Images(lay[i].type, lay[i].meta,
                                               IF t.kind \in {"manually_drop",
                                                              "atomic_bool"}
                                               THEN d ELSE d + 1)]),
                pad \in PadBytes}

\* The metadata a pointer to a value of type t can carry.
RECURSIVE Metas(_)
Metas(t) ==
    CASE t.kind = "slice" -> 0..MaxLen
      [] t.kind \in {"str", "cstr"} -> 0..MaxStr
      [] t.kind = "manually_drop" -> Metas(t.inner)
      [] OTHER -> {0}

(***************************************************************************)
(* The state machine.                                                      *)
(***************************************************************************)
\* There is one thread.
NoThread == [pc |-> "none"]

Init ==
    /\ shape \in Types
    /\ meta \in Metas(shape)
    /\ mem \in Images(shape, meta, 0)
    /\ \E k \in ErrorKinds : context = [error |-> k, verified |-> 0]
    /\ pc = "ready"
    /\ stack = <<>>
    /\ ret = "none"
    /\ err = NoError
    /\ trace = <<>>
    /\ log = <<>>
    /\ region = 0
    /\ other = NoThread

\* The caller calls <shape as CheckBytes<C>>::check_bytes(value, &mut context).
Call ==
    /\ pc = "ready"
    /\ pc' = "running"
    /\ stack' = <<Frame(shape, region, meta, <<>>)>>
    /\ trace' = <<CallEvent(shape, region, <<>>)>>
    /\ UNCHANGED <<mem, meta, shape, context, ret, err, log, region, other>>

\* The caller, who holds the region and the result of the last call, gets
\* ready to call check_bytes on the same region again, with the context it
\* used before or with a new one of the same type.
CallAgain ==
    /\ pc = "done"
    /\ Len(log) < MaxCalls
    /\ pc' = "ready"
    /\ stack' = <<>>
    /\ ret' = "none"
    /\ err' = NoError
    /\ trace' = <<>>
    /\ \E fresh \in BOOLEAN :
          context' = IF fresh THEN [error |-> context.error, verified |-> 0]
                              ELSE context
    /\ UNCHANGED <<mem, meta, shape, log, region, other>>

\* The other of the two error types.
OtherKind(k) == CHOOSE o \in ErrorKinds : o # k

\* The caller, who holds the region and the result of the last call, gets
\* ready to call check_bytes on the same region with a new context whose
\* error type is the other one: FailureContext after ErrorContext,
\* ErrorContext after FailureContext.
CallWithOtherKind ==
    /\ pc = "done"
    /\ Len(log) < MaxCalls
    /\ pc' = "ready"
    /\ stack' = <<>>
    /\ ret' = "none"
    /\ err' = NoError
    /\ trace' = <<>>
    /\ context' = [error |-> OtherKind(context.error), verified |-> 0]
    /\ UNCHANGED <<mem, meta, shape, log, region, other>>

Next ==
    \/ Call
    \/ CheckBytesPrimitive
    \/ CheckBytesBool
    \/ CheckBytesAtomicBool
    \/ CheckBytesChar
    \/ CheckBytesNonZero
    \/ CheckBytesStr
    \/ CheckBytesCStr
    \/ CheckBytesManuallyDrop
    \/ CheckBytesArray
    \/ CheckBytesSlice
    \/ CheckBytesTuple
    \/ CheckBytesRange
    \/ CheckBytesStruct
    \/ CheckBytesTupleStruct
    \/ CheckBytesUnitStruct
    \/ CheckBytesEnum

Spec == Init /\ [][Next]_vars

\* check_bytes is synchronous code without a suspension point: a call that
\* has begun is run to its return, and a caller that means to call does.
LiveSpec == Spec /\ WF_vars(Next)

\* The region is validated again and again, up to MaxCalls times.
NextRepeated == Next \/ CallAgain
RepeatedSpec == Init /\ [][NextRepeated]_vars

(***************************************************************************)
(* Two threads.  Each validates a region of its own with a context of its  *)
(* own; the regions lie one after the other in the one memory.  The        *)
(* variables hold the call of the thread that runs, `other` the call of    *)
(* the thread that waits.                                                  *)
(***************************************************************************)
\* The regions the two threads validate: an array of bools and a struct
\* with a verify expression, which changes the context of its thread.
PairTypes == {ArrayT(BoolT, 2), CheckedT}
PairImages(t) == Images(t, 0, 2)

PairInit ==
    \E a, b \in PairTypes :
        \E ia \in PairImages(a), ib \in PairImages(b) :
            \E ka, kb \in ErrorKinds :
                /\ mem = ia \o ib
                /\ shape = a
                /\ meta = 0
                /\ region = 0
                /\ context = [error |-> ka, verified |-> 0]
                /\ pc = "ready"
                /\ stack = <<>>
                /\ ret = "none"
                /\ err = NoError
                /\ trace = <<>>
                /\ log = <<>>
                /\ other = [shape |-> b, meta |-> 0, region |-> Len(ia),
                            context |-> [error |-> kb, verified |-> 0],
                            pc |-> "ready", stack |-> <<>>, ret |-> "none",
                            err |-> NoError, trace |-> <<>>, log |-> <<>>]

\* What the thread that runs holds of its own: its arguments, its context,
\* its stack, the result being returned, and what it has got so far.
Suspended ==
    [shape |-> shape, meta |-> meta, region |-> region, context |-> context,
     pc |-> pc, stack |-> stack, ret |-> ret, err |-> err, trace |-> trace,
     log |-> log]

\* Each thread makes its first call while the other thread is in no call.
MayPreempt == pc # "running" \/ (log # <<>> /\ other.log # <<>>)

\* Preempt with the result of the check that returned last kept in one
\* place for the two threads.
PreemptSharedResult ==
    /\ other # NoThread
    /\ MayPreempt
    /\ shape' = other.shape
    /\ meta' = other.meta
    /\ region' = other.region
    /\ context' = other.context
    /\ pc' = other.pc
    /\ stack' = other.stack
    /\ trace' = other.trace
    /\ log' = other.log
    /\ other' = Suspended
    /\ UNCHANGED <<mem, ret, err>>

\* The thread that runs is stopped between two steps and the other thread
\* goes on: check_bytes gets value and context as arguments and returns
\* its Result by value, so all that a call holds is its thread's.
Preempt ==
    /\ other # NoThread
    /\ MayPreempt
    /\ shape' = other.shape
    /\ meta' = other.meta
    /\ region' = other.region
    /\ context' = other.context
    /\ pc' = other.pc
    /\ stack' = other.stack
    /\ ret' = other.ret
    /\ err' = other.err
    /\ trace' = other.trace
    /\ log' = other.log
    /\ other' = Suspended
    /\ UNCHANGED mem

\* The steps of the two threads in any order; each thread validates its
\* region up to MaxCalls times.
NextPair ==
    \/ Call
    \/ CheckBytesPrimitive
    \/ CheckBytesBool
    \/ CheckBytesArray
    \/ CheckBytesStruct
    \/ CallAgain
    \/ Preempt
PairSpec == PairInit /\ [][NextPair]_vars

\* The region is validated with the one error type and then with the other.
NextKinds == Next \/ CallWithOtherKind
KindsSpec == Init /\ [][NextKinds]_vars

Done == pc = "done"

(***************************************************************************)
(* What the properties speak of.                                           *)
(***************************************************************************)
\* The events of one kind, in the order they happened.
Calls == SelectSeq(trace, LAMBDA e : e.op = "call")
Reads == SelectSeq(trace, LAMBDA e : e.op = "read")
News == SelectSeq(trace, LAMBDA e : e.op = "new")
Contexts == SelectSeq(trace, LAMBDA e : e.op = "context")

\* The calls of the checks of the children of the top-level region, and the
\* frames the top-level validator attached.
ChildCalls == SelectSeq(Calls, LAMBDA e : Len(e.path) = 1)
TopContexts == SelectSeq(Contexts, LAMBDA e : e.path = <<>>)

Accepted == pc = "done" /\ ret = "ok"
Rejected == pc = "done" /\ ret = "err"

\* The four bytes at a hold a Unicode scalar value v: v < 0xD800, or
\* 0xE000 <= v <= 0x10FFFF (v = lo + 65536 * hi).
ScalarAt(a) ==
    LET lo == mem[a + 1] + 256 * mem[a + 2]
        hi == mem[a + 3] + 256 * mem[a + 4]
    IN \/ hi = 0 /\ lo < 55296
       \/ hi = 0 /\ lo >= 57344
       \/ hi >= 1 /\ hi <= 16
SurrogateAt(a) ==
    LET lo == mem[a + 1] + 256 * mem[a + 2]
        hi == mem[a + 3] + 256 * mem[a + 4]
    IN hi = 0 /\ lo >= 55296 /\ lo <= 57343
AboveMaxAt(a) == mem[a + 3] + 256 * mem[a + 4] > 16

\* The Unicode scalar values, and the UTF-8 encoding of one (Unicode, table
\* 3-6): one byte below 0x80, two below 0x800, three below 0x10000, four
\* from there on.
IsScalarValue(v) == v \in 0..1114111 /\ v \notin 55296..57343
Utf8Encode(v) ==
    IF v < 128 THEN <<v>>
    ELSE IF v < 2048 THEN <<192 + (v \div 64), 128 + (v % 64)>>
    ELSE IF v < 65536
    THEN <<224 + (v \div 4096), 128 + ((v \div 64) % 64), 128 + (v % 64)>>
    ELSE <<240 + (v \div 262144), 128 + ((v \div 4096) % 64),
           128 + ((v \div 64) % 64), 128 + (v % 64)>>

\* The value whose bits a sequence of one to four bytes holds, when the
\* bytes have the bit pattern of an encoding (0xxxxxxx, 110xxxxx 10xxxxxx,
\* 1110xxxx 10xxxxxx 10xxxxxx, 11110xxx 10xxxxxx 10xxxxxx 10xxxxxx), and -1
\* when they do not.
Utf8Bits(c) ==
    LET tails == \A i \in 2..Len(c) : c[i] \in 128..191
    IN IF Len(c) = 1 /\ c[1] < 128 THEN c[1]
       ELSE IF Len(c) = 2 /\ c[1] \in 192..223 /\ tails
       THEN (c[1] - 192) * 64 + (c[2] - 128)
       ELSE IF Len(c) = 3 /\ c[1] \in 224..239 /\ tails
       THEN (c[1] - 224) * 4096 + (c[2] - 128) * 64 + (c[3] - 128)
       ELSE IF Len(c) = 4 /\ c[1] \in 240..247 /\ tails
       THEN (c[1] - 240) * 262144 + (c[2] - 128) * 4096
                + (c[3] - 128) * 64 + (c[4] - 128)
       ELSE -1

\* The bytes are the encoding of one scalar value: they hold the bits of a
\* scalar value, in the form its encoding has (the shortest).
EncodesScalar(c) ==
    /\ IsScalarValue(Utf8Bits(c))
    /\ Utf8Encode(Utf8Bits(c)) = c

\* Well-formed UTF-8: the encodings of scalar values, one after the other.
RECURSIVE WellFormedUtf8(_)
WellFormedUtf8(bytes) ==
    \/ bytes = <<>>
    \/ \E n \in 1..4 :
          /\ n <= Len(bytes)
          /\ EncodesScalar(SubSeq(bytes, 1, n))
          /\ WellFormedUtf8(SubSeq(bytes, n + 1, Len(bytes)))

\* The bytes end in a zero byte and have no other zero byte.
NulTerminated(bytes) ==
    /\ bytes # <<>>
    /\ \A i \in 1..Len(bytes) : bytes[i] = 0 <=> i = Len(bytes)

\* The region of type t at base (with metadata m) is a legal value of t:
\* every leaf sub-region holds a legal bit pattern, the tag of an enum is
\* the tag of a variant, and the value passes the verify predicate of its
\* type, when the type has one.
RECURSIVE Legal(_, _, _)
Legal(t, base, m) ==
    CASE t.kind = "prim" -> TRUE
      [] t.kind = "bool" -> mem[base + 1] \in {0, 1}
      [] t.kind = "char" -> ScalarAt(base)
      [] t.kind = "nonzero" -> \E i \in 1..t.size : mem[base + i] # 0
      [] t.kind = "str" -> WellFormedUtf8(BytesAt(base, m))
      [] t.kind = "cstr" -> NulTerminated(BytesAt(base, m))
      [] t.kind = "enum" ->
            \E v \in 1..Len(t.variants) :
                /\ IntBytes(t.variants[v].tag, t.repr)
                        = [i \in 1..t.repr |-> mem[base + i]]
                /\ \A i \in 1..Len(t.variants[v].fields) :
                        Legal(t.variants[v].fields[i].type,
                              base + t.variants[v].fields[i].off, 0)
                /\ t.verify.present =>
                        ~t.verify.always /\ mem[base + t.verify.off + 1] # t.verify.bad
      [] OTHER ->
            /\ \A i \in 1..Len(LayoutOf(t, m)) :
                    Legal(LayoutOf(t, m)[i].type, base + LayoutOf(t, m)[i].off,
                          LayoutOf(t, m)[i].meta)
            /\ (t.kind \in {"struct", "tuple_struct", "unit_struct"}
                    /\ t.verify.present) =>
                    ~t.verify.always /\ mem[base + t.verify.off + 1] # t.verify.bad

\* C1: check_bytes returns Ok only if the region is a legal value of the
\* type: every leaf sub-region of an accepted region holds a bit pattern
\* that is legal for its type (and so no region with an illegal leaf is
\* accepted), for the built-in types and for the types composed from them.
C1_Soundness == Accepted => Legal(shape, 0, meta)

\* An accepted enum value with a payload, and an accepted nested struct.
C1_Witness ==
    /\ Accepted
    /\ \/ shape = KindT /\ mem[1] = 1
       \/ shape = ArrayT(PairT, 2)

\* C2: for every integer and float type and the zero-sized types,
\* check_bytes returns Ok for every bit pattern, reads no byte of the
\* region and leaves the context as it was; the call always completes.
C2_PrimitiveAlwaysOk ==
    shape.kind = "prim" =>
        /\ pc = "done" => ret = "ok" /\ err = NoError
        /\ pc # "done" => ENABLED Next
        /\ Reads = <<>>
        /\ News = <<>>
        /\ context.verified = 0

C2_Witness ==
    /\ Accepted
    /\ \/ shape = U8T /\ mem = <<255>>
       \/ shape = F64T /\ mem = Fill(8, 255)
       \/ shape = UnitT

\* C3: for bool and every byte 0..255, check_bytes returns Ok iff the byte
\* is 0 or 1; for any other byte the cause it gives to the error is the
\* BoolCheckError with exactly that byte (which BoxedError then holds).
C3_Bool ==
    (shape = BoolT /\ pc = "done") =>
        /\ ret = "ok" <=> mem[1] \in {0, 1}
        /\ ret = "ok" => News = <<>>
        /\ ret = "err" =>
            /\ Len(News) = 1
            /\ News[1].cause = [type |-> "BoolCheckError", byte |-> mem[1]]
            /\ context.error = "Boxed" => err.cause.byte = mem[1]

C3_Witness ==
    /\ shape = BoolT
    /\ Rejected
    /\ mem = <<2>>
    /\ context.error = "Boxed"

\* C4: for char and every 32-bit value v in the region, check_bytes returns
\* Ok iff v is a Unicode scalar value; it returns Err for every v in
\* 0xD800..0xDFFF and for every v above 0x10FFFF.
C4_Char ==
    (shape = CharT /\ pc = "done") =>
        /\ ret = "ok" <=> ScalarAt(0)
        /\ SurrogateAt(0) => ret = "err"
        /\ AboveMaxAt(0) => ret = "err"

C4_Witness ==
    /\ shape = CharT
    /\ \/ Rejected /\ mem = U32Bytes(0, 57343)
       \/ Rejected /\ mem = U32Bytes(17, 0)
       \/ Accepted /\ mem = U32Bytes(16, 65535)

\* C5: for the non-zero integer type of each width (1, 2, 4, 8, 16 bytes),
\* check_bytes returns Ok iff some bit of the region is set and Err iff all
\* bits are zero, with the fixed cause NonZeroCheckError, which has no value.
C5_NonZero ==
    (shape.kind = "nonzero" /\ pc = "done") =>
        /\ ret = "ok" <=> \E i \in 1..shape.size : mem[i] # 0
        /\ ret = "err" <=> \A i \in 1..shape.size : mem[i] = 0
        /\ ret = "err" =>
            /\ Len(News) = 1
            /\ News[1].cause = [type |-> "NonZeroCheckError"]
            /\ context.error = "Boxed" => DOMAIN err.cause = {"type"}

C5_Witness ==
    /\ shape = NonZeroU128T
    /\ \/ Accepted /\ mem = OneHot(16, 16, 128)
       \/ Rejected

\* The frames of a BoxedError are the frames attached, in the order of
\* their attachment, and its cause is the cause it was made from.
ErrorIsChain ==
    context.error = "Boxed" =>
        /\ err.frames = [i \in 1..Len(Contexts) |-> Contexts[i].frame]
        /\ err.cause = News[1].cause

\* The children of the top-level region in the order of their indices
\* (child i is Kids[i + 1]), for the types whose layout is fixed.
Kids == LayoutOf(shape, meta)
KidLegal(i) == Legal(Kids[i + 1].type, Kids[i + 1].off, Kids[i + 1].meta)
FirstIllegal(k) == ~KidLegal(k) /\ \A j \in 0..(k - 1) : KidLegal(j)

\* The child checks made so far are those of the children 0, 1, 2, ... in
\* this order, each at the address of its child, and a child is checked
\* only when every child before it was found legal.
ChecksInIndexOrder ==
    /\ Len(ChildCalls) <= Len(Kids)
    /\ \A j \in 1..Len(ChildCalls) :
        /\ ChildCalls[j].path = <<j - 1>>
        /\ ChildCalls[j].addr = Kids[j].off
        /\ ChildCalls[j].type = Kids[j].type
        /\ \A i \in 0..(j - 2) : KidLegal(i)

\* The call failed at child k: k is the last child checked, and the one
\* frame the top-level validator attached is `frame`, outermost in the error.
FailedAt(k, frame) ==
    /\ ret = "err"
    /\ Len(ChildCalls) = k + 1
    /\ TopContexts = <<[op |-> "context", frame |-> frame, path |-> <<>>]>>
    /\ Contexts[Len(Contexts)] = TopContexts[1]
    /\ ErrorIsChain

\* C6: check_bytes of [T; N] and of [T] (N the length in the metadata)
\* checks the elements in the order 0, 1, 2, ...; it returns Ok iff every
\* element is legal (so for no element); when element k is the first
\* illegal one it returns the element's error with one more frame, of
\* index k, and checks no element after k.
C6_ArraySlice ==
    shape.kind \in {"array", "slice"} =>
        /\ ChecksInIndexOrder
        /\ pc = "done" =>
            /\ ret = "ok" <=> \A i \in 0..(Len(Kids) - 1) : KidLegal(i)
            /\ ret = "ok" => Contexts = <<>> /\ Len(ChildCalls) = Len(Kids)
            /\ \A k \in 0..(Len(Kids) - 1) :
                FirstIllegal(k) =>
                    FailedAt(k, [ctx |-> IF shape.kind = "array"
                                         THEN "ArrayCheckContext"
                                         ELSE "SliceCheckContext",
                                 index |-> k])

\* An array and a slice whose element 1 is the first illegal one, and an
\* empty array.
C6_Witness ==
    /\ pc = "done"
    /\ \/ shape = ArrayT(BoolT, 2) /\ mem = <<1, 2>> /\ ret = "err"
       \/ shape = SliceT(PairT) /\ meta = 2 /\ mem = <<1, 1, 0, 0>>
            /\ context.error = "Boxed" /\ ret = "err"
       \/ shape = ArrayT(CharT, 0) /\ ret = "ok"

\* C7: check_bytes of a tuple checks the fields in the order of their
\* indices; at the first field i that fails it attaches the frame
\* TupleIndexContext { index: i } and returns, so that no field after i is
\* checked; it returns Ok iff every field is legal.
C7_Tuple ==
    shape.kind = "tuple" =>
        /\ ChecksInIndexOrder
        /\ pc = "done" =>
            /\ ret = "ok" <=> \A i \in 0..(Len(Kids) - 1) : KidLegal(i)
            /\ ret = "ok" => Contexts = <<>> /\ Len(ChildCalls) = Len(Kids)
            /\ \A k \in 0..(Len(Kids) - 1) :
                FirstIllegal(k) =>
                    FailedAt(k, [ctx |-> "TupleIndexContext", index |-> k])

\* A tuple whose field 0 fails although field 1, at a lower address, is
\* illegal too, and the 13-tuple failing at its last field.
C7_Witness ==
    /\ Rejected
    /\ \/ shape = Tuple2T /\ mem[5] = 2 /\ ~ScalarAt(0)
       \/ shape = Tuple13T /\ mem[5] = 1 /\ ScalarAt(0) /\ mem[6] = 2

\* The frame a record validator attaches for its field k.
RecordFrame(k) ==
    IF shape.kind = "tuple_struct"
    THEN [ctx |-> "TupleStructCheckContext", tuple_struct_name |-> shape.name,
          field_index |-> k]
    ELSE [ctx |-> "StructCheckContext", struct_name |-> shape.name,
          field_name |-> shape.fields[k + 1].name]

\* C8: the validator of a record (derived for a struct with named or
\* positional fields, or written by hand for the Range types) checks the
\* fields in the order of their declaration, whatever their offsets; when
\* field k is the first illegal one, the call fails with the frame that
\* holds the name of the record and the name (named fields) or the index k
\* (positional fields) of the field, and no field after k is checked.
C8_Record ==
    shape.kind \in {"struct", "tuple_struct", "range"} =>
        /\ ChecksInIndexOrder
        /\ pc = "done" =>
            /\ ret = "ok" => \A i \in 0..(Len(Kids) - 1) : KidLegal(i)
            /\ ret = "ok" => Contexts = <<>> /\ Len(ChildCalls) = Len(Kids)
            /\ \A k \in 0..(Len(Kids) - 1) :
                FirstIllegal(k) => FailedAt(k, RecordFrame(k))

\* Test with b and c both illegal (b is declared first and lies behind c),
\* a positional record failing at field 1, Range<char> failing at `end`.
C8_Witness ==
    /\ Rejected
    /\ \/ shape = TestT /\ mem[9] = 2 /\ ~ScalarAt(4)
       \/ shape = PairVT /\ mem[2] = 1 /\ mem[1] = 0
       \/ shape = RangeCharT /\ ScalarAt(0) /\ ~ScalarAt(4)

\* C9: for struct Test { a: u32, b: bool, c: char }, laid out as
\* (u32, char, bool): check_bytes returns Ok iff the byte of b is 0 or 1
\* and the four bytes of c are a scalar value, whatever the bytes of a and
\* of the padding; with the byte of b at 2 in an otherwise acceptable
\* region it fails with the frame that names the field b.
C9_Test ==
    (shape = TestT /\ pc = "done") =>
        /\ ret = "ok" <=> (mem[9] \in {0, 1} /\ ScalarAt(4))
        /\ (mem[9] = 2 /\ ScalarAt(4)) =>
                /\ FailedAt(1, [ctx |-> "StructCheckContext",
                                struct_name |-> "Test", field_name |-> "b"])
                /\ News[1].cause = [type |-> "BoolCheckError", byte |-> 2]

\* The regions of the crate's example: (0, 'x', true) with padding 255 is
\* accepted, the same region with b = 2 is rejected.
C9_Witness ==
    /\ shape = TestT
    /\ \/ Accepted /\ mem = <<0, 0, 0, 0, 120, 0, 0, 0, 1, 255, 255, 255>>
       \/ Rejected /\ mem = <<0, 0, 0, 0, 120, 0, 0, 0, 2, 255, 255, 255>>

\* C10 as stated: for struct Test, whenever the bytes of c hold a surrogate
\* value, check_bytes fails with the frame that names the field c,
\* whatever the values of a and of b.
C10_FailsNamingC_AnyB ==
    (shape = TestT /\ pc = "done" /\ SurrogateAt(4)) =>
        FailedAt(2, [ctx |-> "StructCheckContext",
                     struct_name |-> "Test", field_name |-> "c"])

\* C10, amended: for struct Test, whenever the bytes of c hold a surrogate
\* value, check_bytes fails, whatever the values of a and of b; the frame
\* names the field c when the byte of b is legal (0 or 1), whatever the
\* value of a, and it names the field b, checked before c, when the byte
\* of b is illegal.
C10_FailsNamingC_LegalB ==
    (shape = TestT /\ pc = "done" /\ SurrogateAt(4)) =>
        /\ ret = "err"
        /\ mem[9] \in {0, 1} =>
                FailedAt(2, [ctx |-> "StructCheckContext",
                             struct_name |-> "Test", field_name |-> "c"])
        /\ mem[9] \notin {0, 1} =>
                FailedAt(1, [ctx |-> "StructCheckContext",
                             struct_name |-> "Test", field_name |-> "b"])

\* The region of the crate's example with c = 0xD800.
C10_Witness ==
    /\ shape = TestT
    /\ Rejected
    /\ mem = <<0, 0, 0, 0, 0, 216, 0, 0, 1, 255, 255, 255>>

(***************************************************************************)
(* Tagged unions.                                                          *)
(***************************************************************************)
Verifies == SelectSeq(trace, LAMBDA e : e.op = "verify")

\* The discriminant in the first bytes of the region, and the declared ones.
TagValue ==
    IF shape.repr = 1 THEN mem[1] ELSE mem[1] + 256 * mem[2]
DeclaredTags == {shape.variants[v].tag : v \in 1..Len(shape.variants)}

\* C11: for an enum and every discriminant in the region that is the tag of
\* no declared variant, check_bytes fails with the
\* InvalidEnumDiscriminantError that holds the name of the enum and the
\* discriminant read; no field of any variant is checked, no byte after the
\* discriminant is read, and the verify expression is not evaluated.
C11_UnknownTag ==
    (shape.kind = "enum" /\ TagValue \notin DeclaredTags) =>
        /\ ChildCalls = <<>>
        /\ Verifies = <<>>
        /\ Contexts = <<>>
        /\ pc = "done" =>
            /\ ret = "err"
            /\ Reads = <<[op |-> "read", addr |-> 0, len |-> shape.repr]>>
            /\ Len(News) = 1
            /\ News[1].cause = [type |-> "InvalidEnumDiscriminantError",
                                enum_name |-> shape.name,
                                invalid_discriminant |-> TagValue]
            /\ context.error = "Boxed" =>
                    err.cause = News[1].cause /\ err.frames = <<>>

\* The 16-bit tag 512, whose low byte is the low byte of a declared tag, and
\* an unknown tag of the enum with a verify.
C11_Witness ==
    /\ Rejected
    /\ \/ shape = WideT /\ mem[1] = 0 /\ mem[2] = 2
       \/ shape = KindVT /\ mem[1] = 6 /\ mem[4] = 255

\* The variant whose tag the discriminant is, and its fields in the order
\* of their declaration (field i is VFields[i + 1]).
MatchedVariant ==
    shape.variants[CHOOSE v \in 1..Len(shape.variants) :
                        shape.variants[v].tag = TagValue]
VFields == MatchedVariant.fields
VFieldLegal(i) == Legal(VFields[i + 1].type, VFields[i + 1].off, 0)
VFirstIllegal(k) == ~VFieldLegal(k) /\ \A j \in 0..(k - 1) : VFieldLegal(j)

\* The verify expression of the top-level type, if it has one, accepts.
VerifyPasses ==
    shape.verify.present =>
        ~shape.verify.always /\ mem[shape.verify.off + 1] # shape.verify.bad

\* The child checks made so far are those of the fields 0, 1, 2, ... of the
\* matched variant, in this order and at their addresses, and a field is
\* checked only when every field before it was found legal.
VariantChecksInOrder ==
    /\ Len(ChildCalls) <= Len(VFields)
    /\ \A j \in 1..Len(ChildCalls) :
        /\ ChildCalls[j].path = <<j - 1>>
        /\ ChildCalls[j].addr = VFields[j].off
        /\ ChildCalls[j].type = VFields[j].type
        /\ \A i \in 0..(j - 2) : VFieldLegal(i)

\* The frame that names the enum, the matched variant and its field k: by
\* the name of the field, or by its position k for positional fields.
VariantFrame(k) ==
    IF MatchedVariant.style = "named"
    THEN [ctx |-> "NamedEnumVariantCheckContext", enum_name |-> shape.name,
          variant_name |-> MatchedVariant.name,
          field_name |-> VFields[k + 1].name]
    ELSE [ctx |-> "UnnamedEnumVariantCheckContext", enum_name |-> shape.name,
          variant_name |-> MatchedVariant.name, field_index |-> k]

\* C12: for an enum whose discriminant is the tag of the declared variant
\* V, check_bytes checks the fields of V alone, in the order of their
\* declaration; when field k is the first illegal one it fails with the
\* error of that field in a frame that names the enum, V and the field k,
\* and checks no field after k; it returns Ok iff every field of V is legal
\* and the verify expression, if there is one, accepts.
C12_VariantFields ==
    (shape.kind = "enum" /\ TagValue \in DeclaredTags) =>
        /\ VariantChecksInOrder
        /\ pc = "done" =>
            /\ ret = "ok" <=>
                    /\ \A i \in 0..(Len(VFields) - 1) : VFieldLegal(i)
                    /\ VerifyPasses
            /\ ret = "ok" => Contexts = <<>> /\ Len(ChildCalls) = Len(VFields)
            /\ \A k \in 0..(Len(VFields) - 1) :
                    VFirstIllegal(k) => FailedAt(k, VariantFrame(k))

\* The states of the enum validator's state machine that an event of the
\* top-level call shows it to enter: the read of the discriminant (ReadTag,
\* and MatchTag with the match that follows in the same statement), the
\* error of the `_` arm, the check of a field, the verify expression, and
\* the failure of a field or of the verify expression.
EnumMark(e) ==
    CASE e.op = "read" /\ e.addr = 0 -> <<"ReadTag", "MatchTag">>
      [] e.op = "new" /\ e.cause.type = "InvalidEnumDiscriminantError" ->
            <<"Fail:UnknownTag">>
      [] e.op = "call" /\ Len(e.path) = 1 -> <<"ValidateVariantFields">>
      [] e.op = "verify" /\ e.path = <<>> -> <<"Invariant">>
      [] e.op = "new" /\ e.cause.type = "VerifyError" -> <<"Fail">>
      [] e.op = "context" /\ e.path = <<>> -> <<"Fail">>
      [] OTHER -> <<>>

\* The states entered during the first n events of the call, in order; the
\* checks of the fields of the variant are one stay in ValidateVariantFields.
RECURSIVE EnumStates(_)
EnumStates(n) ==
    IF n = 0 THEN <<>>
    ELSE LET before == EnumStates(n - 1)
             m == EnumMark(trace[n])
         IN IF /\ m = <<"ValidateVariantFields">>
               /\ before # <<>>
               /\ before[Len(before)] = "ValidateVariantFields"
            THEN before
            ELSE before \o m

\* The states the call has entered so far; Success is entered with Ok(()).
StatesEntered ==
    EnumStates(Len(trace)) \o (IF Accepted THEN <<"Success">> ELSE <<>>)

EnumTerminal == {"Fail:UnknownTag", "Fail", "Success"}

\* The transitions of the state machine.  A variant without payload has no
\* field to check: its ValidateVariantFields is passed without an event.
EnumTransitions ==
    {<<"ReadTag", "MatchTag">>, <<"MatchTag", "Fail:UnknownTag">>,
     <<"MatchTag", "ValidateVariantFields">>,
     <<"ValidateVariantFields", "Invariant">>,
     <<"ValidateVariantFields", "Success">>,
     <<"ValidateVariantFields", "Fail">>,
     <<"Invariant", "Success">>, <<"Invariant", "Fail">>}
    \cup (IF TagValue \in DeclaredTags /\ VFields = <<>>
          THEN {<<"MatchTag", "Invariant">>, <<"MatchTag", "Success">>}
          ELSE {})

\* C13: a call of an enum's check_bytes goes through the states ReadTag,
\* MatchTag, then Fail:UnknownTag or ValidateVariantFields, the verify
\* expression if there is one, and Success or Fail: every step is a
\* transition of this machine, no state is entered twice, a call that has
\* returned has entered exactly one terminal state (one that has not, none),
\* the unknown-tag state is entered exactly for an undeclared discriminant,
\* and the discriminant is read exactly once, before any other byte.
C13_StateMachine ==
    shape.kind = "enum" =>
        LET st == StatesEntered
            tagReads == SelectSeq(Reads, LAMBDA e : e.addr = 0)
        IN /\ \A i \in 1..(Len(st) - 1) : <<st[i], st[i + 1]>> \in EnumTransitions
           /\ \A i, j \in 1..Len(st) : i # j => st[i] # st[j]
           /\ st # <<>> => st[1] = "ReadTag"
           /\ Cardinality({i \in 1..Len(st) : st[i] \in EnumTerminal})
                    = (IF pc = "done" THEN 1 ELSE 0)
           /\ pc = "done" => st[Len(st)] \in EnumTerminal
           /\ pc = "done" =>
                    ("Fail:UnknownTag" \in {st[i] : i \in 1..Len(st)}
                        <=> TagValue \notin DeclaredTags)
           /\ Len(tagReads) = (IF Len(trace) >= 2 THEN 1 ELSE 0)
           /\ Reads # <<>> =>
                    Reads[1] = [op |-> "read", addr |-> 0, len |-> shape.repr]

\* A call that goes through every state of the success path, and one that
\* fails in the verify expression after the fields of the variant passed.
C13_Witness ==
    /\ shape = KindVT
    /\ mem[1] = 1
    /\ \/ StatesEntered = <<"ReadTag", "MatchTag", "ValidateVariantFields",
                            "Invariant", "Success">>
       \/ StatesEntered = <<"ReadTag", "MatchTag", "ValidateVariantFields",
                            "Invariant", "Fail">>

(***************************************************************************)
(* The verify expression.                                                  *)
(***************************************************************************)
\* The evaluations of the verify expression of the top-level type.
TopVerifies == SelectSeq(Verifies, LAMBDA e : e.path = <<>>)

\* Every field check of the top-level record, or of the matched variant of
\* the top-level enum, was made and returned Ok(()).
AllFieldsPassed ==
    IF shape.kind = "enum"
    THEN /\ TagValue \in DeclaredTags
         /\ Len(ChildCalls) = Len(VFields)
         /\ \A i \in 0..(Len(VFields) - 1) : VFieldLegal(i)
    ELSE /\ Len(ChildCalls) = Len(Kids)
         /\ \A i \in 0..(Len(Kids) - 1) : KidLegal(i)

\* C14: the verify expression of a derived struct or enum is evaluated at
\* most once in a call, and only after every field check of the struct (of
\* the matched variant) has returned Ok; it is not evaluated when a field
\* check failed or the discriminant matched no variant, and it is evaluated
\* when all passed; when it rejects, the call fails with the error made
\* from its cause, and the validator of the type attaches no frame to it.
C14_Verify ==
    /\ \A i, j \in 1..Len(Verifies) :
            Verifies[i].path = Verifies[j].path => i = j
    /\ (shape.kind \in {"struct", "tuple_struct", "unit_struct", "enum"}
        /\ shape.verify.present) =>
        /\ Len(TopVerifies) <= 1
        /\ TopVerifies # <<>> =>
            /\ AllFieldsPassed
            /\ TopContexts = <<>>
            /\ pc = "done"
            /\ trace[Len(trace)].op \in {"verify", "new"}
        /\ pc = "done" =>
            /\ TopVerifies # <<>> <=> AllFieldsPassed
            /\ (TopVerifies # <<>> /\ ~VerifyPasses) =>
                /\ ret = "err"
                /\ TopContexts = <<>>
                /\ News = <<[op |-> "new", cause |-> [type |-> "VerifyError"],
                             built |-> TRUE]>>
                /\ trace[Len(trace)] = News[1]
                /\ context.error = "Boxed" =>
                        err = [kind |-> "Boxed",
                               cause |-> [type |-> "VerifyError"],
                               frames |-> <<>>]
            /\ (TopVerifies # <<>> /\ VerifyPasses) => ret = "ok"

\* A struct and an enum whose fields pass and whose verify rejects, and a
\* struct whose field fails, so that its verify (which would reject) is
\* not evaluated.
C14_Witness ==
    /\ Rejected
    /\ \/ shape = CheckedT /\ mem = <<255, 1>> /\ TopVerifies # <<>>
       \/ shape = KindVT /\ mem[1] = 5 /\ mem[4] = 255 /\ TopVerifies # <<>>
       \/ shape = CheckedT /\ mem = <<255, 2>> /\ TopVerifies = <<>>

(***************************************************************************)
(* Types without fields.                                                   *)
(***************************************************************************)
\* The top-level type is a struct without fields (struct S;  struct S {}
\* struct S();) or an enum whose discriminant matches a variant without
\* payload.
NoPayload ==
    \/ shape.kind = "unit_struct"
    \/ shape.kind \in {"struct", "tuple_struct"} /\ shape.fields = <<>>
    \/ shape.kind = "enum" /\ TagValue \in DeclaredTags /\ VFields = <<>>

\* C15 as stated: check_bytes of a struct without fields, and of an enum
\* whose matched variant has no payload, returns Ok for every content of
\* the region, also when the type has a verify expression.
C15_NoPayloadAlwaysOk == (NoPayload /\ pc = "done") => ret = "ok"

\* C15, amended: check_bytes of a struct without fields, and of an enum
\* whose matched variant has no payload, makes no field check and attaches
\* no frame, for every content of the region; it returns Ok always when
\* the type has no verify expression, and when it has one it returns Ok iff
\* the verify expression accepts.
C15_NoPayloadOkUnlessVerify ==
    NoPayload =>
        /\ ChildCalls = <<>>
        /\ Contexts = <<>>
        /\ pc = "done" =>
            /\ ret = "ok" <=> VerifyPasses
            /\ ~shape.verify.present =>
                    ret = "ok" /\ News = <<>> /\ err = NoError
            /\ ret = "err" => News[1].cause = [type |-> "VerifyError"]

\* A unit struct and a variant without payload rejected by the verify
\* expression of their type.
C15_Witness ==
    /\ Rejected
    /\ \/ shape = NeverT
       \/ shape = KindVT /\ mem[1] = 0 /\ mem[4] = 255

(***************************************************************************)
(* The transparent wrapper.                                                *)
(***************************************************************************)
\* C16: check_bytes of ManuallyDrop<T> calls check_bytes of T once, at the
\* address (and with the metadata) of the wrapper; it returns Ok iff the
\* region is a legal T, that is iff T's check returns Ok; when T's check
\* fails it returns T's error with exactly one more frame,
\* ManuallyDropContext, attached after every frame from within T and so
\* outermost.
C16_ManuallyDrop ==
    shape.kind = "manually_drop" =>
        /\ Len(ChildCalls) <= 1
        /\ ChildCalls # <<>> =>
                ChildCalls[1] = [op |-> "call", type |-> shape.inner,
                                 addr |-> 0, path |-> <<0>>]
        /\ \A i \in 1..Len(stack) :
                Len(stack[i].path) = 1 => stack[i].meta = meta
        /\ pc = "done" =>
            /\ Len(ChildCalls) = 1
            /\ ret = "ok" <=> Legal(shape.inner, 0, meta)
            /\ ret = "ok" => Contexts = <<>> /\ News = <<>>
            /\ ret = "err" =>
                /\ TopContexts = <<[op |-> "context",
                                    frame |-> [ctx |-> "ManuallyDropContext"],
                                    path |-> <<>>]>>
                /\ Contexts[Len(Contexts)] = TopContexts[1]
                /\ \A i \in 1..(Len(Contexts) - 1) : Contexts[i].path # <<>>
                /\ Len(News) = 1
                /\ ErrorIsChain

\* ManuallyDrop<ManuallyDrop<(bool,)>> with an illegal bool: three frames,
\* the outer wrapper's last; and ManuallyDrop<[bool]> failing at element 1.
C16_Witness ==
    /\ Rejected
    /\ context.error = "Boxed"
    /\ \/ shape = ManuallyDropT(ManuallyDropT(Tuple1T)) /\ Len(err.frames) = 3
       \/ shape = ManuallyDropT(SliceT(BoolT)) /\ meta = 2 /\ mem = <<1, 2>>

(***************************************************************************)
(* The error chain.                                                        *)
(***************************************************************************)
\* The frames attached so far, the first attached first.
FramesAttached == [i \in 1..Len(Contexts) |-> Contexts[i].frame]

IsPrefix(a, b) == Len(a) <= Len(b) /\ a = SubSeq(b, 1, Len(a))

\* C17 as stated: once context is attached to an error, of whatever kind,
\* the cause the error was made from can be got from it, and so can the
\* frames attached, in the order of their attachment, the last attached
\* outermost (last).
C17_ChainAnyKind ==
    Contexts # <<>> =>
        /\ "cause" \in DOMAIN err
        /\ err.cause = News[1].cause
        /\ err.frames = FramesAttached

\* C17, amended: for the detailed kind (BoxedError), at every moment the
\* error holds the cause it was made from and the frames attached, in the
\* order of their attachment, the last attached last (outermost); an
\* attachment keeps the cause and the frames there were, in their order,
\* and adds one frame at the outer end.  The minimal kind (Failure) holds
\* neither cause nor frame, before and after every attachment.
C17_ChainDetailedKind ==
    /\ [](err.kind = "Boxed" =>
            err.cause = News[1].cause /\ err.frames = FramesAttached)
    /\ [](err.kind = "Failure" => err = [kind |-> "Failure"])
    /\ [][(err.kind = "Boxed" /\ err'.kind = "Boxed") =>
            /\ err'.cause = err.cause
            /\ IsPrefix(err.frames, err'.frames)
            /\ Len(err'.frames) <= Len(err.frames) + 1
            /\ Len(err'.frames) = Len(err.frames) + 1 =>
                    err'.frames[Len(err'.frames)]
                        = Contexts'[Len(Contexts')].frame]_vars
    /\ [][(err.kind = "Failure" /\ pc' # "ready") => err' = err]_vars

\* An error of the detailed kind after two attachments: the index of the
\* inner array first, the index of the outer array last.
C17_Witness ==
    /\ Rejected
    /\ shape = ArrayT(ArrayT(BoolT, 2), MaxN)
    /\ err.kind = "Boxed"
    /\ Len(err.frames) = 2
    /\ mem[2] = 2
    /\ err.frames = <<[ctx |-> "ArrayCheckContext", index |-> 1],
                      [ctx |-> "ArrayCheckContext", index |-> 0]>>

(***************************************************************************)
(* Frames and nesting.                                                     *)
(***************************************************************************)
\* The path of the check_bytes call that made the error: the call whose
\* verify expression rejected, or else the call entered last before the
\* error was made.  Its length is the nesting depth of the failure.
FailPath ==
    LET n == CHOOSE n \in 1..Len(trace) : trace[n].op = "new"
        c == CHOOSE c \in 1..(n - 1) :
                /\ trace[c].op = "call"
                /\ \A j \in (c + 1)..(n - 1) : trace[j].op # "call"
    IN IF trace[n - 1].op = "verify" THEN trace[n - 1].path ELSE trace[c].path

\* The paths of the calls that enclose the failing one, innermost first.
EnclosingPaths ==
    [i \in 1..Len(FailPath) |-> SubSeq(FailPath, 1, Len(FailPath) - i)]

\* The type whose check_bytes was called for the sub-region at path p.
TypeAt(p) ==
    LET c == CHOOSE c \in 1..Len(Calls) : Calls[c].path = p IN Calls[c].type

\* The kind of frame the validator of a type attaches (an enum's: FrameIsOf).
FrameOf(t) ==
    CASE t.kind = "manually_drop" -> "ManuallyDropContext"
      [] t.kind = "array" -> "ArrayCheckContext"
      [] t.kind = "slice" -> "SliceCheckContext"
      [] t.kind = "tuple" -> "TupleIndexContext"
      [] t.kind \in {"struct", "range"} -> "StructCheckContext"
      [] t.kind = "tuple_struct" -> "TupleStructCheckContext"
      [] OTHER -> "none"

FrameIsOf(frame, t) ==
    IF t.kind = "enum"
    THEN frame.ctx \in {"NamedEnumVariantCheckContext",
                        "UnnamedEnumVariantCheckContext"}
    ELSE frame.ctx = FrameOf(t)

\* C18 as stated: when a call fails, every check_bytes call that encloses
\* the failing one has attached exactly one frame, the innermost first: a
\* failure at nesting depth d has d frames.
C18_OneFramePerLevel ==
    Rejected =>
        /\ Len(Contexts) = Len(FailPath)
        /\ \A i \in 1..Len(Contexts) : Contexts[i].path = EnclosingPaths[i]
        /\ err.kind = "Boxed" => err.frames = FramesAttached

\* C18, amended: when a call fails, every check_bytes call that encloses the
\* failing one has attached exactly one frame, of its own kind, the
\* innermost first, except the calls of AtomicBool, which pass the error of
\* the bool on as it is; the error of the detailed kind holds exactly these
\* frames in this order.  (An error of the verify expression is made by the
\* call of the type that has the expression, which attaches no frame.)
C18_OneFramePerFramingLevel ==
    Rejected =>
        LET framing == SelectSeq(EnclosingPaths,
                                 LAMBDA p : TypeAt(p).kind # "atomic_bool")
        IN /\ Len(Contexts) = Len(framing)
           /\ \A i \in 1..Len(Contexts) :
                /\ Contexts[i].path = framing[i]
                /\ FrameIsOf(Contexts[i].frame, TypeAt(framing[i]))
           /\ err.kind = "Boxed" => err.frames = FramesAttached

\* An illegal AtomicBool in an array: the failing bool check is at depth 2
\* and the error has the one frame of the array.
C18_Witness ==
    /\ Rejected
    /\ err.kind = "Boxed"
    /\ shape = ArrayT(AtomicBoolT, MaxN)
    /\ Len(FailPath) = 2
    /\ err.frames = <<[ctx |-> "ArrayCheckContext", index |-> 1]>>

(***************************************************************************)
(* Calls repeated on one region.                                           *)
(***************************************************************************)
\* C19: every call of check_bytes on the same region, unchanged, with the
\* same type gives the caller the same result: Ok or Err, the same error
\* (cause and frames, hence the same failing index or field), after the
\* same calls, reads and attachments in the same order; this is so when
\* the context of the call before is used again and when a new context is
\* used, and a call in progress repeats the steps of the call before.
C19_Deterministic ==
    /\ \A i, j \in 1..Len(log) : log[i] = log[j]
    /\ (log # <<>> /\ pc = "running") => IsPrefix(trace, log[1].trace)

\* The second call on a region that fails in a nested verify expression,
\* with the context of the first call used again (it has seen the two
\* evaluations).
C19_Witness ==
    /\ Len(log) = 2
    /\ Rejected
    /\ shape = OuterT
    /\ err.kind = "Boxed"
    /\ err.cause = [type |-> "VerifyError"]
    /\ Len(err.frames) = 1
    /\ context.verified = 2

(***************************************************************************)
(* Termination and the number of checks.                                   *)
(***************************************************************************)
\* The number of children the top-level type has in this region.
NumChildren ==
    CASE shape.kind = "enum" ->
            IF TagValue \in DeclaredTags THEN Len(VFields) ELSE 0
      [] IsLeaf(shape) -> 0
      [] OTHER -> Len(Kids)

\* The number of check_bytes calls when every sub-region of a region of
\* type t is checked: the structural size of the type (for an enum, that
\* of its largest variant).
RECURSIVE Nodes(_, _)
RECURSIVE SumNodes(_)
SumNodes(fields) ==
    IF fields = <<>> THEN 0
    ELSE Nodes(Head(fields).type, 0) + SumNodes(Tail(fields))
Nodes(t, m) ==
    CASE IsLeaf(t) \/ t.kind = "unit_struct" -> 1
      [] t.kind = "atomic_bool" -> 2
      [] t.kind = "manually_drop" -> 1 + Nodes(t.inner, m)
      [] t.kind = "array" -> 1 + t.n * Nodes(t.elem, 0)
      [] t.kind = "slice" -> 1 + m * Nodes(t.elem, 0)
      [] t.kind = "enum" ->
            LET sizes == {SumNodes(t.variants[v].fields) :
                            v \in 1..Len(t.variants)}
            IN 1 + (CHOOSE x \in sizes : \A y \in sizes : y <= x)
      [] OTHER -> 1 + SumNodes(t.fields)

\* The bounds on the checks of a call.
ChecksBounded ==
    /\ Len(ChildCalls) <= NumChildren
    /\ shape.kind = "array" => Len(ChildCalls) <= shape.n
    /\ shape.kind = "slice" => Len(ChildCalls) <= meta
    /\ Len(Calls) <= Nodes(shape, meta)
    /\ \A i, j \in 1..Len(Calls) : Calls[i].path = Calls[j].path => i = j
    /\ pc = "done" =>
        /\ ret \in {"ok", "err"}
        /\ ret = "ok" <=> err = NoError
        /\ ret = "ok" => Len(ChildCalls) = NumChildren
        /\ shape.kind = "enum" =>
                \A k \in 0..(NumChildren - 1) :
                    VFirstIllegal(k) => ret = "err" /\ Len(ChildCalls) = k + 1
        /\ (shape.kind # "enum" /\ ~IsLeaf(shape)) =>
                \A k \in 0..(NumChildren - 1) :
                    FirstIllegal(k) => ret = "err" /\ Len(ChildCalls) = k + 1

\* C20: every call of check_bytes returns, with Ok or with Err; a call for
\* an array makes at most N element checks, for a slice at most as many as
\* its length, for a struct, tuple or enum variant at most one for each
\* declared field (each sub-region is checked at most once, so the calls
\* are at most the structural size of the type), and a call that fails at
\* element or field k has made exactly k + 1 child checks.
C20_Terminates ==
    /\ []ChecksBounded
    /\ (pc = "running") ~> (pc = "done")
    /\ (pc = "ready") ~> (pc = "done")

\* A slice of two elements that fails at element 1, after two child checks.
C20_Witness ==
    /\ Rejected
    /\ shape = SliceT(PairT)
    /\ meta = 2
    /\ mem[3] = 2
    /\ Len(ChildCalls) = 2

(***************************************************************************)
(* What a call leaves as it was.                                           *)
(***************************************************************************)
\* The evaluations of verify expressions so far.
VerifyEvents == SelectSeq(trace, LAMBDA e : e.op = "verify")

\* The call in progress is the call of a derived type that has a verify
\* expression: the one place where code of the user gets the context.
InVerify ==
    /\ stack # <<>>
    /\ Top.type.kind \in {"struct", "tuple_struct", "unit_struct", "enum"}
    /\ Top.type.verify.present

\* C22: no step of a call, of one that succeeds or of one that fails,
\* changes a byte of the region (or its metadata); no step of a validator
\* of lib.rs changes the context: the context changes only where the
\* verify expression of the user is evaluated, which gets it as an
\* argument; and the context holds its error type and what the user's
\* expression put there, never a byte of the region or an error, so that
\* the next call finds nothing of this one in it.
C22_FrameCondition ==
    /\ [][mem' = mem /\ meta' = meta /\ shape' = shape]_vars
    /\ [][context' # context =>
            /\ InVerify
            /\ Len(VerifyEvents') = Len(VerifyEvents) + 1
            /\ context' = [context EXCEPT !.verified = @ + 1]]_vars
    /\ [](/\ DOMAIN context = {"error", "verified"}
          /\ context.error \in ErrorKinds
          /\ context.verified = Len(VerifyEvents))

\* A call that has failed in the second field of a tuple of built-in
\* types, with the context as it was before the call.
C22_Witness ==
    /\ Rejected
    /\ shape = Tuple2T
    /\ mem[1] = 0 /\ mem[2] = 216
    /\ Len(Reads) = 2
    /\ context = [error |-> "Boxed", verified |-> 0]

(***************************************************************************)
(* Text.                                                                   *)
(***************************************************************************)
\* C23: check_bytes of str reads the bytes of the region, as many as the
\* metadata of the pointer says, once, and returns Ok exactly when they are
\* well-formed UTF-8 (the encodings of scalar values one after the other;
\* no byte at all is well-formed); otherwise it returns the error made
\* with new from the Utf8Error of from_utf8, which names the index up to
\* which the bytes are well-formed, and attaches no context.
C23_Str ==
    (shape = StrT /\ pc = "done") =>
        /\ Reads = <<ReadEvent(0, meta)>>
        /\ Len(mem) = meta
        /\ ret = "ok" <=> WellFormedUtf8(mem)
        /\ meta = 0 => ret = "ok"
        /\ ret = "ok" => News = <<>> /\ err = NoError
        /\ ret = "err" =>
            /\ Len(News) = 1
            /\ News[1].built
            /\ News[1].cause = FromUtf8(mem).cause
            /\ News[1].cause.type = "Utf8Error"
            /\ News[1].cause.valid_up_to < meta
            /\ WellFormedUtf8(SubSeq(mem, 1, News[1].cause.valid_up_to))
            /\ Contexts = <<>>
            /\ err = New(context.error, News[1].cause)
            /\ err.kind = "Boxed" => err.frames = <<>>

\* A str of four bytes, the letter A and then the three bytes that would
\* encode the surrogate 0xD800, rejected with the index 1 in the cause.
C23_Witness ==
    /\ Rejected
    /\ shape = StrT
    /\ mem = <<65, 237, 160, 128>>
    /\ err.kind = "Boxed"
    /\ err.cause = Utf8Error(1, <<1>>)

\* C24: check_bytes of CStr reads the bytes of the region, as many as the
\* metadata says, and returns Ok exactly when the last byte is zero and no
\* byte before it is: it fails for no byte at all, for a last byte that is
\* not zero (NotNulTerminated when there is no zero byte) and for a zero
\* byte before the last (InteriorNul with the index of the first one); the
\* error is made with new from the error of from_bytes_with_nul and has no
\* context.
C24_CStr ==
    (shape = CStrT /\ pc = "done") =>
        /\ Reads = <<ReadEvent(0, meta)>>
        /\ Len(mem) = meta
        /\ ret = "ok" <=> NulTerminated(mem)
        /\ meta = 0 => ret = "err"
        /\ (meta > 0 /\ mem[meta] # 0) => ret = "err"
        /\ (\E i \in 1..(meta - 1) : mem[i] = 0) => ret = "err"
        /\ ret = "ok" => News = <<>> /\ err = NoError
        /\ ret = "err" =>
            /\ Len(News) = 1
            /\ News[1].built
            /\ News[1].cause.type = "FromBytesWithNulError"
            /\ IF \E i \in 1..meta : mem[i] = 0
               THEN /\ News[1].cause.kind = "InteriorNul"
                    /\ mem[News[1].cause.position + 1] = 0
                    /\ \A i \in 1..News[1].cause.position : mem[i] # 0
                    /\ News[1].cause.position + 1 < meta
               ELSE News[1].cause = NotNulTerminated
            /\ Contexts = <<>>
            /\ err = New(context.error, News[1].cause)

\* A CStr of four bytes that ends in a zero byte and has a zero byte at
\* index 1 as well.
C24_Witness ==
    /\ Rejected
    /\ shape = CStrT
    /\ mem = <<65, 0, 65, 0>>
    /\ err.kind = "Boxed"
    /\ err.cause = InteriorNul(1)

(***************************************************************************)
(* The index of a positional field of a variant.                           *)
(***************************************************************************)
\* C25: for an enum whose tag is that of a variant V with positional
\* fields, the check of field k (counted from 0 among the fields V
\* declares) is made at the address of the field that follows the tag by k
\* places in the layout of V, and when it fails, its error is put in an
\* UnnamedEnumVariantCheckContext whose field_index is k.
C25_PositionalFieldIndex ==
    (/\ shape.kind = "enum"
     /\ TagValue \in DeclaredTags
     /\ MatchedVariant.style = "unnamed") =>
        /\ \A j \in 1..Len(ChildCalls) :
                /\ ChildCalls[j].addr = VFields[j].off
                /\ ChildCalls[j].addr >= shape.repr
                /\ ChildCalls[j].type = VFields[j].type
        /\ \A i \in 1..Len(TopContexts) :
                TopContexts[i].frame =
                    UnnamedEnumVariantCheckContext(shape.name,
                                                   MatchedVariant.name,
                                                   Len(ChildCalls) - 1)

(***************************************************************************)
(* What the causes carry.                                                  *)
(***************************************************************************)
\* C26: the cause of the error with which check_bytes of char rejects a
\* region carries the 32-bit value that was read and found to be no
\* scalar value, as the cause with which check_bytes of bool rejects a
\* region carries the byte that was read.
C26_CharCauseNamesValue ==
    /\ (shape = BoolT /\ Rejected) =>
            /\ "byte" \in DOMAIN News[1].cause
            /\ News[1].cause.byte = mem[1]
    /\ (shape = CharT /\ Rejected) =>
            /\ "value" \in DOMAIN News[1].cause
            /\ News[1].cause.value = ReadU32(0)

(***************************************************************************)
(* The minimal error kind.                                                 *)
(***************************************************************************)
\* The causes that lib.rs hands to new_with in a closure: BoolCheckError
\* (bool) and NonZeroCheckError (the non-zero integers).
MadeWithNewWith(e) == e.cause.type \in {"BoolCheckError", "NonZeroCheckError"}

\* C27: with FailureContext, whose error type is Failure, every error a
\* call makes or returns is the one value Failure, without cause and
\* without frame: new and new_with give it for every cause, context gives
\* back the error it got for every frame, so that no two failures differ;
\* new_with does not evaluate its closure (the cause is not built).  With
\* both error types, as long as no check has failed no error is
\* constructed and no closure is evaluated: a call that returns Ok has
\* made none.
C27_Failure ==
    /\ context.error = "Failure" =>
        /\ err \in {NoError, [kind |-> "Failure"]}
        /\ \A i \in 1..Len(News) :
            /\ FailureNew(News[i].cause) = [kind |-> "Failure"]
            /\ FailureNewWith(News[i].cause) = FailureNew(News[i].cause)
            /\ MadeWithNewWith(News[i]) => ~News[i].built
        /\ \A i \in 1..Len(Contexts) :
            FailureContextOp([kind |-> "Failure"], Contexts[i].frame)
                = [kind |-> "Failure"]
        /\ News # <<>> => err = [kind |-> "Failure"]
    /\ News # <<>> => ret = "err"
    /\ Accepted => News = <<>> /\ Contexts = <<>> /\ err = NoError

\* A bool that is rejected in an array, with FailureContext: the closure
\* of new_with was not evaluated, one frame was handed to context, and the
\* error is the bare Failure.
C27_Witness ==
    /\ Rejected
    /\ context.error = "Failure"
    /\ shape = ArrayT(BoolT, 2)
    /\ mem = <<1, 2>>
    /\ Len(News) = 1 /\ ~News[1].built
    /\ Len(Contexts) = 1
    /\ err = [kind |-> "Failure"]

(***************************************************************************)
(* The two error types on one region.                                      *)
(***************************************************************************)
\* An event without what depends on the error type: whether the cause
\* handed to new_with was built.
Plain(e) == IF e.op = "new" THEN [op |-> "new", cause |-> e.cause] ELSE e
PlainEvents(events) == [i \in 1..Len(events) |-> Plain(events[i])]

\* What an error of the detailed type holds: the cause of the new event
\* and the frames of the context events, in their order.
DetailOf(events) ==
    LET news == SelectSeq(events, LAMBDA e : e.op = "new")
        ctxs == SelectSeq(events, LAMBDA e : e.op = "context")
    IN [kind |-> "Boxed", cause |-> news[1].cause,
        frames |-> [i \in 1..Len(ctxs) |-> ctxs[i].frame]]

\* C28: the calls of check_bytes on one region with FailureContext and
\* with ErrorContext return Ok together and Err together, after the same
\* calls of child checks, the same reads, the same evaluations of verify
\* and the same constructions and attachments, in the same order; what
\* differs is what the error holds (Failure: nothing, BoxedError: the cause
\* and the frames) and whether the closure of new_with was evaluated; and
\* a call in progress with the one type does what the call with the
\* other did.
C28_KindIndependent ==
    /\ \A i, j \in 1..Len(log) :
        /\ log[i].ret = log[j].ret
        /\ PlainEvents(log[i].trace) = PlainEvents(log[j].trace)
    /\ \A i \in 1..Len(log) :
        /\ log[i].ret = "ok" => log[i].err = NoError
        /\ log[i].ret = "err" =>
                \/ log[i].err = [kind |-> "Failure"]
                \/ log[i].err = DetailOf(log[i].trace)
        /\ i < Len(log) => log[i].err.kind # log[i + 1].err.kind
                                \/ log[i].ret = "ok"
    /\ (log # <<>> /\ pc = "running") =>
            IsPrefix(PlainEvents(trace), PlainEvents(log[1].trace))

\* A struct whose nested array holds an illegal bool, rejected first with
\* FailureContext and then with ErrorContext, which names the index and
\* the field.
C28_Witness ==
    /\ Len(log) = 2
    /\ shape = OuterT
    /\ log[1].ret = "err" /\ log[2].ret = "err"
    /\ log[1].err = [kind |-> "Failure"]
    /\ log[2].err.kind = "Boxed"
    /\ log[2].err.cause = BoolCheckError(2)
    /\ Len(log[2].err.frames) = 2
    /\ log[1].trace # log[2].trace

(***************************************************************************)
(* Two calls at a time.                                                    *)
(***************************************************************************)
\* Every call the thread with the log lg has made has given the same.
SameOutcomes(lg) == \A i, j \in 1..Len(lg) : lg[i] = lg[j]

\* C21: two threads validate two regions that lie apart, each with a
\* context of its own, their steps taken in any order.  The first call of
\* each thread is made while the other thread is in no call; every later
\* call, made while the other thread is in a call of its own, gives what
\* the first call gave: Ok or Err, the same error (cause and frames, so
\* the same failing index or field), after the same events; a call in
\* progress has done what the first call did up to there.  No step writes
\* to a region, and a step of the one thread changes nothing the other
\* thread holds.
C21_Interleaved ==
    /\ [](/\ SameOutcomes(log)
          /\ SameOutcomes(other.log)
          /\ (log # <<>> /\ pc = "running") =>
                IsPrefix(trace, log[1].trace)
          /\ (other.log # <<>> /\ other.pc = "running") =>
                IsPrefix(other.trace, other.log[1].trace))
    /\ [][mem' = mem]_vars
    /\ [][other' # other => other' = Suspended]_vars

\* The two threads are each in the middle of their second call: the one
\* that runs has had its first bool accepted in the array, the one that
\* waits has had the bool of its struct rejected; both go on as they did
\* in their first call.
C21_Witness ==
    /\ pc = "running" /\ other.pc = "running"
    /\ Len(log) = 1 /\ Len(other.log) = 1
    /\ shape = ArrayT(BoolT, 2) /\ other.shape = CheckedT
    /\ ret = "ok" /\ Len(stack) = 1
    /\ other.ret = "err" /\ Len(other.stack) = 1
    /\ log[1].ret = "err" /\ other.log[1].ret = "err"

====
